---- MODULE Spec2Model ----
(***************************************************************************)
(* Model of the thumbnail/cover bot worker (thumbbot/src/index.js, the     *)
(* revision that starts at line 368 of the file: handleUpdate,             *)
(* handleMessage, handleCallback, the module-level userState map and the   *)
(* three KV namespaces COVERS_KV, STATS_KV and USER_STORE).                *)
(*                                                                         *)
(* A handler is an async function: it runs synchronously up to its first   *)
(* await, and every awaited call is one step of the model.  task[h] is one *)
(* handler invocation: its position (pc), its locals and the trace (out)   *)
(* of the external calls it has made so far, store calls included.         *)
(***************************************************************************)
EXTENDS Naturals, Sequences, FiniteSets, TLC

VARIABLES
    COVERS_KV,   \* env.COVERS_KV : key (user id) -> object name -> file id
    STATS_KV,    \* env.STATS_KV  : key (user id) -> {videos_processed, covers_changed}
    USER_STORE,  \* env.USER_STORE: key (user id) -> "1"
    userState,   \* the module-level Map userState: user id -> flow-state entry
    task,        \* the handler invocations (one per slot)
    nUpdates,    \* number of updates received so far (bounded by MaxUpdates)
    hist,        \* history of what was handled, kept for the properties only
    http         \* the last request fetch has answered, and its response

vars == <<COVERS_KV, STATS_KV, USER_STORE, userState, task, nUpdates, hist, http>>

(***************************************************************************)
(* Bounds of the model.                                                    *)
(***************************************************************************)
MaxUpdates == 3

Slots == {1, 2}
Users == {"u1", "u2"}

(***************************************************************************)
(* JavaScript values.  An object parsed from JSON is a function from its   *)
(* own keys to values; a property read that misses the own keys falls back *)
(* to Object.prototype, and an assignment to __proto__ of a non-object     *)
(* value creates no own property.  "__proto__" stands for the members of   *)
(* Object.prototype here (toString, constructor, ... read the same way).   *)
(***************************************************************************)
DEFAULT_COVER_NAME == "__default__"

Undefined == "undefined"
Inherited == "[object Object]"
ObjectPrototypeKeys == {"__proto__"}

EmptyObject == [k \in {} |-> Undefined]

ObjectKeys(o) == DOMAIN o

GetProp(o, k) ==
    IF k \in DOMAIN o THEN o[k]
    ELSE IF k \in ObjectPrototypeKeys THEN Inherited
    ELSE Undefined

Truthy(v) == v # Undefined /\ v # ""

SetProp(o, k, v) ==
    IF k = "__proto__" THEN o
    ELSE [x \in (DOMAIN o) \cup {k} |-> IF x = k THEN v ELSE o[x]]

DeleteProp(o, k) == [x \in (DOMAIN o) \ {k} |-> o[x]]

(***************************************************************************)
(* A KV namespace is a function from the keys present to their values.     *)
(* get(key, 'json') || dflt, put(key, JSON.stringify(v)), list().          *)
(***************************************************************************)
\* a variant that never finds the key
KvGetOrDefault(kv, key, dflt) == dflt

KvGetOr(kv, key, dflt) == IF key \in DOMAIN kv THEN kv[key] ELSE dflt

\* a variant whose write does not reach the namespace
KvPutNothing(kv, key, v) == kv

KvPut(kv, key, v) == [x \in (DOMAIN kv) \cup {key} |-> IF x = key THEN v ELSE kv[x]]

\* a variant that returns one key of the namespace only
KvListFirst(kv) == IF DOMAIN kv = {} THEN {} ELSE {CHOOSE key \in DOMAIN kv : TRUE}

KvList(kv) == DOMAIN kv

ZeroStats == [videos_processed |-> 0, covers_changed |-> 0]

\* a variant that rebuilds the record and loses the other counter
IncVideosOnly(stats) ==
    [videos_processed |-> stats.videos_processed + 1, covers_changed |-> 0]

\* a variant that counts a video twice
IncVideosTwice(stats) == [stats EXCEPT !.videos_processed = @ + 2]

IncVideos(stats) == [stats EXCEPT !.videos_processed = @ + 1]

IncCovers(stats) == [stats EXCEPT !.covers_changed = @ + 1]

(***************************************************************************)
(* The Map userState: has, get, set, delete.                               *)
(***************************************************************************)
MapHas(m, u) == u \in DOMAIN m

\* a variant that keeps the entry the user already has: the first one wins
MapSetIfAbsent(m, u, e) ==
    [x \in (DOMAIN m) \cup {u} |-> IF x \in DOMAIN m THEN m[x] ELSE e]

MapSet(m, u, e) == [x \in (DOMAIN m) \cup {u} |-> IF x = u THEN e ELSE m[x]]

\* a variant that leaves the entry in the map
MapDeleteNothing(m, u) == m

MapDelete(m, u) == [x \in (DOMAIN m) \ {u} |-> m[x]]

\* a variant that does not look at the tag of the entry
AwaitingAny(m, u, action) == MapHas(m, u)

Awaiting(m, u, action) == MapHas(m, u) /\ m[u].action = action

\* a variant that does not keep the caption
NewCoverEntryNoCaption(video, caption, mid) ==
    [action |-> "awaiting_new_cover", file_id |-> video,
     original_caption |-> "", message_id |-> mid]

\* the entry set by set_cover (line 817) and by save_with_name (line 749)
NewCoverEntry(video, caption, mid) ==
    [action |-> "awaiting_new_cover", file_id |-> video,
     original_caption |-> caption, message_id |-> mid]

CoverNameEntry(file, mid) ==
    [action |-> "awaiting_cover_name", file_id |-> file,
     original_caption |-> "", message_id |-> mid]

NoEntry == [action |-> "", file_id |-> "", original_caption |-> "", message_id |-> 0]

(***************************************************************************)
(* The updates.  A message carries a text, a video or a photo (an array of *)
(* sizes, the last one the largest) and possibly the message it replies    *)
(* to; a callback query carries its action token and the message the       *)
(* button is on.  A token is its keyword (or its prefix family, ending in  *)
(* "_") and the parameter that follows the prefix.                         *)
(***************************************************************************)
NoVideo == [file_id |-> "", cover |-> <<>>, thumbnail |-> ""]

V1 == [file_id |-> "v1", cover |-> <<>>, thumbnail |-> ""]
V2 == [file_id |-> "v2", cover |-> <<"v2_cover_small", "v2_cover">>, thumbnail |-> "v2_thumb"]

P1 == <<"p1_small", "p1">>
P2 == <<"p2_small", "p2">>

Replied(mid, video, caption, photo) ==
    [message_id |-> mid, video |-> video, caption |-> caption, photo |-> photo]

NoReply == Replied(0, NoVideo, "", <<>>)

VideoMessageOf(v) == IF v = V1 THEN Replied(5, V1, "c1", <<>>) ELSE Replied(6, V2, "c2", <<>>)

PhotoMessageOf(p) == Replied(4, NoVideo, "", p)

Message(from, mid, text, r, reply) ==
    [from |-> from, message_id |-> mid, text |-> text, video |-> r.video,
     caption |-> r.caption, photo |-> r.photo, reply_to_message |-> reply]

NoMessage == Message("", 0, "", NoReply, NoReply)

Tok(kw, param) == [kw |-> kw, param |-> param]

CallbackQuery(from, data, mid, reply) ==
    [id |-> 7, from |-> from, data |-> data,
     message |-> [message_id |-> mid, reply_to_message |-> reply]]

NoCallback == [id |-> 0, from |-> "", data |-> Tok("", ""),
               message |-> [message_id |-> 0, reply_to_message |-> NoReply]]

Update(cq, msg) == [callback_query |-> cq, message |-> msg]

\* the texts of the model, and text.trim().split(' ') of each (lines 508-510)
SaveCoverText(n) ==
    CASE n = "" -> "/save_cover"
      [] n = "a" -> "/save_cover a"
      [] n = "__default__" -> "/save_cover __default__"
      [] n = "__proto__" -> "/save_cover __proto__"

Split(text) ==
    CASE text = "/save_cover a" -> <<"/save_cover", "a">>
      [] text = "/save_cover __default__" -> <<"/save_cover", "__default__">>
      [] text = "/save_cover __proto__" -> <<"/save_cover", "__proto__">>
      [] OTHER -> <<text>>

\* a variant whose fallback is another name than the reserved one
CoverNameArgOrDefault(text) ==
    IF Len(Split(text)) > 1 THEN Split(text)[2] ELSE "default"

\* args[0] || DEFAULT_COVER_NAME (line 553)
CoverNameArg(text) ==
    IF Len(Split(text)) > 1 THEN Split(text)[2] ELSE DEFAULT_COVER_NAME

\* photo[photo.length - 1].file_id (lines 555, 614, 693)
LargestPhoto(photo) == photo[Len(photo)]

(***************************************************************************)
(* The updates a user can cause, over given sets of cover names, photos,   *)
(* videos and prompt-message ids.  A reply is enumerated only where the    *)
(* code reads it.                                                          *)
(***************************************************************************)
PlainTexts == {"/start", "/covers", "/stats", "/usersx", "a", "__proto__"}

MessagesOf(u, names, photos, videos) ==
    {Message(u, 1, t, NoReply, NoReply) : t \in PlainTexts}
    \cup {Message(u, 1, SaveCoverText(n), NoReply, PhotoMessageOf(p)) :
            n \in names \cup {""}, p \in photos}
    \cup {Message(u, 1, "/save_cover", NoReply, NoReply)}
    \cup {Message(u, 1, "", VideoMessageOf(v), NoReply) : v \in videos}
    \cup {Message(u, 1, "", PhotoMessageOf(p), NoReply) : p \in photos}

CoverMenuTokens(names) ==
    {Tok(kw, n) : kw \in {"send_cover_", "confirm_delete_", "delete_cover_"}, n \in names}
    \cup {Tok("cancel_delete", "")}

ImageTokens == {Tok(kw, "") : kw \in {"paste_image", "save_cover", "save_default", "save_with_name"}}

VideoTokens(names) ==
    {Tok(kw, "") : kw \in {"extract_metadata", "extract_media", "set_cover", "use_saved_cover"}}
    \cup {Tok("apply_cover_", n) : n \in names}
    \cup {Tok("noop", "")}

\* the id of the message the button is on is varied for the two tokens that
\* keep it in the flow state
PromptsOf(d, prompts) ==
    IF d.kw \in {"set_cover", "save_with_name"} THEN prompts ELSE {2}

CallbacksOf(u, names, photos, videos, prompts) ==
    {CallbackQuery(u, d, 2, r) :
        d \in CoverMenuTokens(names), r \in {NoReply, VideoMessageOf(V1)}}
    \cup UNION {{CallbackQuery(u, d, m, r) :
                    m \in PromptsOf(d, prompts),
                    r \in {NoReply} \cup {PhotoMessageOf(p) : p \in photos}} :
                d \in ImageTokens}
    \cup UNION {{CallbackQuery(u, d, m, r) :
                    m \in PromptsOf(d, prompts),
                    r \in {NoReply} \cup {VideoMessageOf(v) : v \in videos}} :
                d \in VideoTokens(names)}

UpdatesOf(u, names, photos, videos, prompts) ==
    {Update(NoCallback, m) : m \in MessagesOf(u, names, photos, videos)}
    \cup {Update(c, NoMessage) : c \in CallbacksOf(u, names, photos, videos, prompts)}
    \cup {Update(NoCallback, NoMessage),
          Update(CallbackQuery(u, Tok("cancel_delete", ""), 2, NoReply),
                 Message(u, 1, "/start", NoReply, NoReply))}

(***************************************************************************)
(* External calls, as they appear in a handler's trace.  Texts are given   *)
(* by a tag and their parameters, a keyboard by the set of its rows, a row *)
(* by the tuple of its buttons' tokens.  Chat ids are left out: every call *)
(* of a handler goes to the chat of its update.                            *)
(***************************************************************************)
Call(m, a) == [m |-> m, a |-> a]

NoButtons == {}

HasPhoto(r) == r.message_id # 0 /\ r.photo # <<>>

\* a variant that takes any message for a video message
HasVideoAlways(r) == TRUE

HasVideo(r) == r.message_id # 0 /\ r.video # NoVideo

(***************************************************************************)
(* handleUpdate (lines 494-500) and the branch a handler takes before its  *)
(* first await: handleMessage (lines 507-640), handleCallback (645-863).   *)
(***************************************************************************)
MessageBranch(message, us) ==
    IF message.text # "" THEN
        IF Awaiting(us, message.from, "awaiting_cover_name") THEN "awaiting_cover_name"
        ELSE LET command == Split(message.text)[1] IN
             CASE command = "/start" -> "/start"
               [] command = "/save_cover" ->
                    IF HasPhoto(message.reply_to_message) THEN "/save_cover"
                    ELSE "/save_cover usage"
               [] command = "/covers" -> "/covers"
               [] command = "/stats" -> "/stats"
               [] command = "/usersx" -> "/usersx"
               [] OTHER -> "none"
    ELSE IF message.video # NoVideo THEN "video"
    ELSE IF message.photo # <<>> THEN
        IF Awaiting(us, message.from, "awaiting_new_cover") THEN "awaiting_new_cover"
        ELSE "photo"
    ELSE "none"

CoverMenuKeywords == {"send_cover_", "confirm_delete_", "delete_cover_", "cancel_delete"}
ImageKeywords == {"paste_image", "save_cover", "save_default", "save_with_name"}
VideoKeywords == {"extract_metadata", "extract_media", "set_cover", "use_saved_cover", "apply_cover_"}

CallbackBranch(callback_query) ==
    LET action == callback_query.data
        reply == callback_query.message.reply_to_message
    IN  IF action.kw \in CoverMenuKeywords THEN action.kw
        ELSE IF action.kw \in ImageKeywords THEN
            IF ~HasPhoto(reply) THEN "photo not found" ELSE action.kw
        ELSE IF ~HasVideo(reply) THEN "video not found"
        ELSE IF action.kw \in VideoKeywords THEN action.kw
        ELSE "none"

IsCallback(update) == update.callback_query # NoCallback

IsMessage(update) == ~IsCallback(update) /\ update.message # NoMessage

\* a variant that looks at the message first
UpdateBranchMessageFirst(update, us) ==
    IF update.message # NoMessage THEN MessageBranch(update.message, us)
    ELSE IF update.callback_query # NoCallback THEN CallbackBranch(update.callback_query)
    ELSE "none"

UpdateBranch(update, us) ==
    IF update.callback_query # NoCallback THEN CallbackBranch(update.callback_query)
    ELSE IF update.message # NoMessage THEN MessageBranch(update.message, us)
    ELSE "none"

\* a variant that keys every record by one identity, as a key taken from a
\* shared chat would
UserOfChat(update) == "u1"

UserOf(update) ==
    IF update.callback_query # NoCallback THEN update.callback_query.from
    ELSE update.message.from

\* the first awaited call of each branch
FirstPc(br) ==
    CASE br \in {"awaiting_cover_name", "/save_cover", "/covers", "send_cover_",
                 "delete_cover_", "save_default", "use_saved_cover", "apply_cover_"}
            -> "covers_get"
      [] br \in {"/stats", "video", "awaiting_new_cover"} -> "stats_get"
      [] br = "/start" -> "users_put"
      [] br = "/usersx" -> "users_list"
      [] br \in {"/save_cover usage", "photo"} -> "send"
      [] br \in {"confirm_delete_", "cancel_delete", "paste_image", "save_cover",
                 "save_with_name"} -> "edit"
      [] br \in {"photo not found", "video not found", "extract_metadata",
                 "extract_media", "set_cover"} -> "answer"
      [] OTHER -> "end"

NoWorkingMsg == [ok |-> FALSE, message_id |-> 0]

IdleTask ==
    [st |-> "idle", br |-> "none", pc |-> "end", userId |-> "", update |-> Update(NoCallback, NoMessage),
     pending |-> "", entry |-> NoEntry, userCovers |-> EmptyObject, stats |-> ZeroStats,
     userCount |-> 0, workingMsg |-> NoWorkingMsg, foundMedia |-> FALSE, out |-> <<>>]

NewTask(update, us) ==
    LET br == UpdateBranch(update, us)
        u == UserOf(update)
    IN  [IdleTask EXCEPT
            !.st = IF FirstPc(br) = "end" THEN "done" ELSE "run",
            !.br = br,
            !.pc = FirstPc(br),
            !.userId = u,
            !.update = update,
            !.pending = IF MapHas(us, u) THEN us[u].action ELSE "",
            !.entry = IF br \in {"awaiting_cover_name", "awaiting_new_cover"}
                      THEN us[u] ELSE NoEntry]

(***************************************************************************)
(* History, for the properties only: per user, the video messages handled, *)
(* the saved covers applied, the applications of a value inherited from    *)
(* Object.prototype and the photo completions that wrote the counter; the  *)
(* users whose text "/start" was handled, those of them who sent it while  *)
(* no cover name was awaited, and how often each did; per user, the kinds  *)
(* of save to the default slot that have ended; per handler, the counters  *)
(* of its user when its update arrived; per user, the last set_cover       *)
(* callback that set the flow state (line 817) and how many did, and the   *)
(* last callback, set_cover or save_with_name, that set it (817, 749).     *)
(***************************************************************************)
SentVideo(t) == \E i \in 1..Len(t.out) : t.out[i].m = "sendVideo"

SentInherited(t) ==
    \E i \in 1..Len(t.out) : t.out[i].m = "sendVideo" /\ t.out[i].a[2] = Inherited

\* the saves that name no cover or name the reserved one: /save_cover and
\* /save_cover __default__ in reply to a photo (line 551), save_default (742)
IsDefaultSave(t) ==
    \/ t.br = "/save_cover"
          /\ t.update.message.text \in {"/save_cover", "/save_cover __default__"}
    \/ t.br = "save_default"

DefaultSaveKind(t) == IF t.br = "save_default" THEN "save_default" ELSE t.update.message.text

Note(hs, t) ==
    LET u == t.userId
        msg == t.update.message
    IN  IF u \notin Users THEN hs ELSE
        [hs EXCEPT
            !.videos[u] = IF IsMessage(t.update) /\ msg.text = "" /\ msg.video # NoVideo
                          THEN @ + 1 ELSE @,
            !.applied[u] = IF IsCallback(t.update) /\ SentVideo(t) /\ ~SentInherited(t)
                           THEN @ + 1 ELSE @,
            !.inherited[u] = IF IsCallback(t.update) /\ SentInherited(t) THEN @ + 1 ELSE @,
            !.defaultSaves[u] = IF IsDefaultSave(t) THEN @ \cup {DefaultSaveKind(t)} ELSE @,
            !.starts[u] = IF IsMessage(t.update) /\ msg.text = "/start"
                               /\ t.pending # "awaiting_cover_name"
                          THEN @ + 1 ELSE @,
            !.sentStart = IF IsMessage(t.update) /\ msg.text = "/start"
                          THEN @ \cup {u} ELSE @,
            !.startCommands = IF IsMessage(t.update) /\ msg.text = "/start"
                                 /\ t.pending # "awaiting_cover_name"
                              THEN @ \cup {u} ELSE @]

(***************************************************************************)
(* fetch (lines 465-490).  A request is its path, its host, the bindings   *)
(* env holds and whether its body decodes as JSON; http keeps the last     *)
(* request with the status of its response, whether console.error was      *)
(* called, and the calls fetch itself made to the platform.                *)
(***************************************************************************)
Bindings == {"BOT_TOKEN", "COVERS_KV", "STATS_KV", "USER_STORE"}

Envs == {Bindings} \cup {Bindings \ {b} : b \in Bindings}

Paths == {"/webhook", "/delete", "/", "/webhook/"}

\* url.hostname: the host the worker is registered under and another one
WorkerHost == "bot.example"

Hosts == {WorkerHost, "alias.example"}

\* a variant that registers the worker's own host whatever the request
WebhookUrlOfWorker(host) == <<"https://", WorkerHost, "/webhook">>

\* `https://${url.hostname}/webhook` (line 483)
WebhookUrl(host) == <<"https://", host, "/webhook">>

\* a variant that does not ask for USER_STORE
ConfiguredButUserStore(env) == {"BOT_TOKEN", "COVERS_KV", "STATS_KV"} \subseteq env

\* line 468
Configured(env) == Bindings \subseteq env

Request(path, host, env, decodable) ==
    [path |-> path, host |-> host, env |-> env, decodable |-> decodable]

\* the requests: the body is varied where fetch decodes it (/webhook, line
\* 475) and the host where fetch reads it (the other paths, line 483)
Requests ==
    {Request("/webhook", WorkerHost, env, d) : env \in Envs, d \in BOOLEAN}
    \cup {Request("/delete", WorkerHost, env, TRUE) : env \in Envs}
    \cup {Request(path, host, env, TRUE) :
            path \in Paths \ {"/webhook", "/delete"}, host \in Hosts, env \in Envs}

Respond(req, status, logged, calls) ==
    [path |-> req.path, host |-> req.host, env |-> req.env, decodable |-> req.decodable,
     status |-> status, logged |-> logged, calls |-> calls]

NoRequest == Respond(Request("", "", {}, FALSE), 0, FALSE, <<>>)

Init ==
    /\ COVERS_KV = EmptyObject
    /\ STATS_KV = EmptyObject
    /\ USER_STORE = EmptyObject
    /\ userState = EmptyObject
    /\ task = [h \in Slots |-> IdleTask]
    /\ nUpdates = 0
    /\ http = NoRequest
    /\ hist = [videos |-> [u \in Users |-> 0], applied |-> [u \in Users |-> 0],
               recovered |-> [u \in Users |-> 0],
               inherited |-> [u \in Users |-> 0],
               before |-> [h \in Slots |-> ZeroStats],
               defaultSaves |-> [u \in Users |-> {}],
               starts |-> [u \in Users |-> 0], sentStart |-> {}, startCommands |-> {},
               setCover |-> [u \in Users |-> NoCallback],
               setCovers |-> [u \in Users |-> 0],
               setter |-> [u \in Users |-> NoCallback]]

Free(h) == task[h].st # "run"

Running(h, br) == task[h].st = "run" /\ task[h].br = br

Quiescent == \A h \in Slots : Free(h)

\* a variant that retries the call: the handler stays where it is
GoAgain(t, pc, calls) == t

Go(t, pc, calls) == [t EXCEPT !.pc = pc, !.out = @ \o calls]

End(t, calls) == [t EXCEPT !.st = "done", !.pc = "end", !.out = @ \o calls]

\* one step of handler h to the task record t2
Step(h, t2) ==
    /\ task' = [task EXCEPT ![h] = t2]
    /\ hist' = IF t2.st = "done" THEN Note(hist, t2) ELSE hist

(***************************************************************************)
(* fetch, its branches other than the dispatch of an update.               *)
(***************************************************************************)
\* lines 468-470: a binding is missing
FetchUnconfigured(req) ==
    /\ ~Configured(req.env)
    /\ http' = Respond(req, 500, FALSE, <<>>)
    /\ UNCHANGED <<COVERS_KV, STATS_KV, USER_STORE, userState, task, nUpdates, hist>>

\* lines 475 and 486-489: request.json() throws, the catch logs and answers 500
FetchUndecodable(req) ==
    /\ Configured(req.env)
    /\ req.path = "/webhook"
    /\ ~req.decodable
    /\ http' = Respond(req, 500, TRUE, <<>>)
    /\ UNCHANGED <<COVERS_KV, STATS_KV, USER_STORE, userState, task, nUpdates, hist>>

\* lines 479-482
FetchDelete(req) ==
    /\ Configured(req.env)
    /\ req.path = "/delete"
    /\ http' = Respond(req, 200, FALSE, <<Call("deleteWebhook", <<>>)>>)
    /\ UNCHANGED <<COVERS_KV, STATS_KV, USER_STORE, userState, task, nUpdates, hist>>

\* lines 483-485: any other path registers the webhook
FetchSetWebhook(req) ==
    /\ Configured(req.env)
    /\ req.path \notin {"/webhook", "/delete"}
    /\ http' = Respond(req, 200, FALSE, <<Call("setWebhook", <<WebhookUrl(req.host)>>)>>)
    /\ UNCHANGED <<COVERS_KV, STATS_KV, USER_STORE, userState, task, nUpdates, hist>>

(***************************************************************************)
(* An update arrives: handleUpdate dispatches it and the handler runs up   *)
(* to its first await (fetch, lines 474-477, does not wait for it).  The   *)
(* handler takes the lowest slot that is not running.  save_with_name sets *)
(* the flow state before its first await (line 749).  fetch answers 200    *)
(* (line 477).  The update is posted to the host the worker is registered  *)
(* under; nothing on this path reads the host.                             *)
(***************************************************************************)
Receive(h, update) ==
    /\ nUpdates < MaxUpdates
    /\ \E env \in Envs :
          /\ Configured(env)
          /\ http' = Respond(Request("/webhook", WorkerHost, env, TRUE), 200, FALSE, <<>>)
    /\ Free(h)
    /\ \A g \in Slots : g < h => ~Free(g)
    /\ nUpdates' = nUpdates + 1
    /\ LET t == NewTask(update, userState) IN
        /\ task' = [task EXCEPT ![h] = t]
        /\ hist' = [(IF t.st = "done" THEN Note(hist, t) ELSE hist)
                       EXCEPT !.before[h] = KvGetOr(STATS_KV, t.userId, ZeroStats),
                              !.setter = IF t.br = "save_with_name"
                                         THEN [@ EXCEPT ![t.userId] = update.callback_query]
                                         ELSE @]
        /\ userState' =
             IF t.br = "save_with_name"
             THEN MapSet(userState, t.userId,
                         CoverNameEntry(
                             LargestPhoto(update.callback_query.message.reply_to_message.photo),
                             update.callback_query.message.message_id))
             ELSE userState
    /\ UNCHANGED <<COVERS_KV, STATS_KV, USER_STORE>>

(***************************************************************************)
(* handleMessage, text branches.                                           *)
(***************************************************************************)
\* lines 512-522: the text is the name of the cover held in the flow state
AwaitingCoverName(h) ==
    /\ Running(h, "awaiting_cover_name")
    /\ LET t == task[h]
           u == t.userId
           name == t.update.message.text
       IN  CASE t.pc = "covers_get" ->
                  /\ Step(h, Go([t EXCEPT !.userCovers =
                                    SetProp(KvGetOr(COVERS_KV, u, EmptyObject), name, t.entry.file_id)],
                                "covers_put", <<Call("COVERS_KV.get", <<u>>)>>))
                  /\ UNCHANGED <<COVERS_KV, userState>>
             [] t.pc = "covers_put" ->
                  /\ COVERS_KV' = KvPut(COVERS_KV, u, t.userCovers)
                  /\ Step(h, Go(t, "edit", <<Call("COVERS_KV.put", <<u, t.userCovers>>)>>))
                  /\ UNCHANGED userState
             [] t.pc = "edit" ->
                  /\ Step(h, End(t, <<Call("editMessageText",
                                           <<t.entry.message_id, <<"Cover saved as", name>>, NoButtons>>)>>))
                  /\ userState' = MapDelete(userState, u)
                  /\ UNCHANGED COVERS_KV
    /\ UNCHANGED <<STATS_KV, USER_STORE, nUpdates, http>>

\* lines 524-550: /start registers the user and greets
StartCommand(h) ==
    /\ Running(h, "/start")
    /\ LET t == task[h]
           u == t.userId
       IN  CASE t.pc = "users_put" ->
                  /\ USER_STORE' = KvPut(USER_STORE, u, "1")
                  /\ Step(h, Go(t, "send", <<Call("USER_STORE.put", <<u, "1">>)>>))
             [] t.pc = "send" ->
                  /\ Step(h, End(t, <<Call("sendMessage", <<<<"Hello">>, 0>>)>>))
                  /\ UNCHANGED USER_STORE
    /\ UNCHANGED <<COVERS_KV, STATS_KV, userState, nUpdates, http>>

\* lines 551-567: /save_cover [name] in reply to a photo
SaveCoverCommand(h) ==
    /\ Running(h, "/save_cover")
    /\ LET t == task[h]
           u == t.userId
           message == t.update.message
           name == CoverNameArg(message.text)
           cover_file_id == LargestPhoto(message.reply_to_message.photo)
       IN  CASE t.pc = "covers_get" ->
                  /\ Step(h, Go([t EXCEPT !.userCovers =
                                    SetProp(KvGetOr(COVERS_KV, u, EmptyObject), name, cover_file_id)],
                                "covers_put", <<Call("COVERS_KV.get", <<u>>)>>))
                  /\ UNCHANGED COVERS_KV
             [] t.pc = "covers_put" ->
                  /\ COVERS_KV' = KvPut(COVERS_KV, u, t.userCovers)
                  /\ Step(h, Go(t, "send", <<Call("COVERS_KV.put", <<u, t.userCovers>>)>>))
             [] t.pc = "send" ->
                  /\ Step(h, End(t, <<Call("sendMessage",
                        <<IF name = DEFAULT_COVER_NAME THEN <<"Default cover saved">>
                          ELSE <<"Cover saved as", name>>,
                          message.message_id>>)>>))
                  /\ UNCHANGED COVERS_KV
    /\ UNCHANGED <<STATS_KV, USER_STORE, userState, nUpdates, http>>

\* lines 568-574: /save_cover that does not reply to a photo
SaveCoverUsage(h) ==
    /\ Running(h, "/save_cover usage")
    /\ Step(h, End(task[h], <<Call("sendMessage", <<<<"To use /save_cover, reply to an image">>, 0>>)>>))
    /\ UNCHANGED <<COVERS_KV, STATS_KV, USER_STORE, userState, nUpdates, http>>

\* a variant whose rows have no delete button
CoverRowsSendOnly(userCovers) ==
    {<<Tok("send_cover_", name)>> : name \in ObjectKeys(userCovers)}

\* the rows of the /covers menu (lines 582-585)
CoverRows(userCovers) ==
    {<<Tok("send_cover_", name), Tok("confirm_delete_", name)>> : name \in ObjectKeys(userCovers)}

\* lines 575-586: /covers
CoversCommand(h) ==
    /\ Running(h, "/covers")
    /\ LET t == task[h]
           u == t.userId
           mid == t.update.message.message_id
       IN  CASE t.pc = "covers_get" ->
                  Step(h, Go([t EXCEPT !.userCovers = KvGetOr(COVERS_KV, u, EmptyObject)],
                             "send", <<Call("COVERS_KV.get", <<u>>)>>))
             [] t.pc = "send" ->
                  IF ObjectKeys(t.userCovers) = {}
                  THEN Step(h, End(t, <<Call("sendMessage", <<<<"You don't have any saved covers">>, mid>>)>>))
                  ELSE Step(h, End(t, <<Call("sendInlineKeyboard",
                                <<<<"Manage your saved covers">>, CoverRows(t.userCovers), mid>>)>>))
    /\ UNCHANGED <<COVERS_KV, STATS_KV, USER_STORE, userState, nUpdates, http>>

\* lines 587-589: /stats
StatsCommand(h) ==
    /\ Running(h, "/stats")
    /\ LET t == task[h]
           u == t.userId
       IN  CASE t.pc = "stats_get" ->
                  Step(h, Go([t EXCEPT !.stats = KvGetOr(STATS_KV, u, ZeroStats)],
                             "send", <<Call("STATS_KV.get", <<u>>)>>))
             [] t.pc = "send" ->
                  Step(h, End(t, <<Call("sendMessage",
                        <<<<"Your Stats", t.stats.videos_processed, t.stats.covers_changed>>,
                          t.update.message.message_id>>)>>))
    /\ UNCHANGED <<COVERS_KV, STATS_KV, USER_STORE, userState, nUpdates, http>>

\* lines 591-594: /usersx reports the number of keys of the registry
UsersxCommand(h) ==
    /\ Running(h, "/usersx")
    /\ LET t == task[h] IN
           CASE t.pc = "users_list" ->
                  Step(h, Go([t EXCEPT !.userCount = Cardinality(KvList(USER_STORE))],
                             "send", <<Call("USER_STORE.list", <<>>)>>))
             [] t.pc = "send" ->
                  Step(h, End(t, <<Call("sendMessage", <<<<"Total Unique Users", t.userCount>>, 0>>)>>))
    /\ UNCHANGED <<COVERS_KV, STATS_KV, USER_STORE, userState, nUpdates, http>>

(***************************************************************************)
(* handleMessage, video and photo branches.                                *)
(***************************************************************************)
VideoMenuRows ==
    {<<Tok(kw, "")>> : kw \in {"extract_metadata", "extract_media", "set_cover", "use_saved_cover"}}

PhotoMenuRows == {<<Tok("paste_image", "")>>, <<Tok("save_cover", "")>>}

\* lines 596-610: a video counts as processed and gets the action menu
VideoMessage(h) ==
    /\ Running(h, "video")
    /\ LET t == task[h]
           u == t.userId
       IN  CASE t.pc = "stats_get" ->
                  /\ Step(h, Go([t EXCEPT !.stats = IncVideos(KvGetOr(STATS_KV, u, ZeroStats))],
                                "stats_put", <<Call("STATS_KV.get", <<u>>)>>))
                  /\ UNCHANGED STATS_KV
             [] t.pc = "stats_put" ->
                  /\ STATS_KV' = KvPut(STATS_KV, u, t.stats)
                  /\ Step(h, Go(t, "send", <<Call("STATS_KV.put", <<u, t.stats>>)>>))
             [] t.pc = "send" ->
                  /\ Step(h, End(t, <<Call("sendInlineKeyboard",
                        <<<<"What would you like to do with this video?">>, VideoMenuRows,
                          t.update.message.message_id>>)>>))
                  /\ UNCHANGED STATS_KV
    /\ UNCHANGED <<COVERS_KV, USER_STORE, userState, nUpdates, http>>

\* the id the platform gives the transient notice
WorkingMsgId == 9

\* lines 612-631: the photo completes the set_cover interaction held in the
\* flow state.  workingMsg.result is undefined when sendMessage did not
\* succeed, and line 629 then throws before userState.delete is reached.
PhotoCompletion(h) ==
    /\ Running(h, "awaiting_new_cover")
    /\ LET t == task[h]
           u == t.userId
           message == t.update.message
           new_cover_file_id == LargestPhoto(message.photo)
       IN  CASE t.pc = "stats_get" ->
                  /\ task' = [task EXCEPT ![h] =
                        Go([t EXCEPT !.stats = IncCovers(KvGetOr(STATS_KV, u, ZeroStats))],
                           "stats_put", <<Call("STATS_KV.get", <<u>>)>>)]
                  /\ UNCHANGED <<STATS_KV, userState, hist>>
             [] t.pc = "stats_put" ->
                  /\ STATS_KV' = KvPut(STATS_KV, u, t.stats)
                  /\ task' = [task EXCEPT ![h] =
                        Go(t, "delete_photo", <<Call("STATS_KV.put", <<u, t.stats>>)>>)]
                  /\ hist' = [hist EXCEPT !.recovered[u] = @ + 1]
                  /\ UNCHANGED userState
             [] t.pc = "delete_photo" ->
                  /\ task' = [task EXCEPT ![h] =
                        Go(t, "delete_prompt", <<Call("deleteMessage", <<message.message_id>>)>>)]
                  /\ UNCHANGED <<STATS_KV, userState, hist>>
             [] t.pc = "delete_prompt" ->
                  /\ task' = [task EXCEPT ![h] =
                        Go(t, "send_working", <<Call("deleteMessage", <<t.entry.message_id>>)>>)]
                  /\ UNCHANGED <<STATS_KV, userState, hist>>
             [] t.pc = "send_working" ->
                  /\ \E ok \in BOOLEAN :
                        task' = [task EXCEPT ![h] =
                            Go([t EXCEPT !.workingMsg =
                                   [ok |-> ok, message_id |-> IF ok THEN WorkingMsgId ELSE 0]],
                               "send_video",
                               <<Call("sendMessage", <<<<"Applying new cover and sending video...">>, 0>>)>>)]
                  /\ UNCHANGED <<STATS_KV, userState, hist>>
             [] t.pc = "send_video" ->
                  /\ task' = [task EXCEPT ![h] =
                        LET t2 == Go(t, "delete_working",
                                     <<Call("sendVideo", <<t.entry.file_id, new_cover_file_id,
                                                           t.entry.original_caption>>)>>)
                        IN  IF t.workingMsg.ok THEN t2 ELSE [t2 EXCEPT !.st = "failed"]]
                  /\ UNCHANGED <<STATS_KV, userState, hist>>
             [] t.pc = "delete_working" ->
                  /\ Step(h, End(t, <<Call("deleteMessage", <<t.workingMsg.message_id>>)>>))
                  /\ userState' = MapDelete(userState, u)
                  /\ UNCHANGED STATS_KV
    /\ UNCHANGED <<COVERS_KV, USER_STORE, nUpdates, http>>

\* lines 632-638: any other photo gets the paste/save menu
PhotoMenu(h) ==
    /\ Running(h, "photo")
    /\ Step(h, End(task[h], <<Call("sendInlineKeyboard",
            <<<<"What would you like to do with this image?">>, PhotoMenuRows,
              task[h].update.message.message_id>>)>>))
    /\ UNCHANGED <<COVERS_KV, STATS_KV, USER_STORE, userState, nUpdates, http>>

(***************************************************************************)
(* handleCallback, the /covers menu family (lines 650-683).                *)
(***************************************************************************)
Answer(t) == Call("answerCallbackQuery", <<t.update.callback_query.id, "">>)

Alert(t, text) == Call("answerCallbackQuery", <<t.update.callback_query.id, text>>)

Edit(t, text, buttons) ==
    Call("editMessageText", <<t.update.callback_query.message.message_id, text, buttons>>)

\* lines 651-658
SendCover(h) ==
    /\ Running(h, "send_cover_")
    /\ LET t == task[h]
           u == t.userId
           coverName == t.update.callback_query.data.param
           fileId == GetProp(t.userCovers, coverName)
       IN  CASE t.pc = "covers_get" ->
                  LET read == KvGetOr(COVERS_KV, u, EmptyObject) IN
                  Step(h, Go([t EXCEPT !.userCovers = read],
                             IF Truthy(GetProp(read, coverName)) THEN "send_photo" ELSE "answer",
                             <<Call("COVERS_KV.get", <<u>>)>>))
             [] t.pc = "send_photo" ->
                  Step(h, Go(t, "answer", <<Call("sendPhoto", <<fileId, <<"Your cover", coverName>>>>)>>))
             [] t.pc = "answer" -> Step(h, End(t, <<Answer(t)>>))
    /\ UNCHANGED <<COVERS_KV, STATS_KV, USER_STORE, userState, nUpdates, http>>

\* lines 659-666
ConfirmDelete(h) ==
    /\ Running(h, "confirm_delete_")
    /\ LET t == task[h]
           coverName == t.update.callback_query.data.param
       IN  CASE t.pc = "edit" ->
                  Step(h, Go(t, "answer",
                        <<Edit(t, <<"Are you sure you want to delete this cover?">>,
                               {<<Tok("delete_cover_", coverName), Tok("cancel_delete", "")>>})>>))
             [] t.pc = "answer" -> Step(h, End(t, <<Answer(t)>>))
    /\ UNCHANGED <<COVERS_KV, STATS_KV, USER_STORE, userState, nUpdates, http>>

\* lines 667-677
DeleteCover(h) ==
    /\ Running(h, "delete_cover_")
    /\ LET t == task[h]
           u == t.userId
           coverName == t.update.callback_query.data.param
       IN  CASE t.pc = "covers_get" ->
                  /\ LET read == KvGetOr(COVERS_KV, u, EmptyObject) IN
                     Step(h, IF Truthy(GetProp(read, coverName))
                             THEN Go([t EXCEPT !.userCovers = DeleteProp(read, coverName)],
                                     "covers_put", <<Call("COVERS_KV.get", <<u>>)>>)
                             ELSE Go([t EXCEPT !.userCovers = read],
                                     "edit_missing", <<Call("COVERS_KV.get", <<u>>)>>))
                  /\ UNCHANGED COVERS_KV
             [] t.pc = "covers_put" ->
                  /\ COVERS_KV' = KvPut(COVERS_KV, u, t.userCovers)
                  /\ Step(h, Go(t, "edit_deleted", <<Call("COVERS_KV.put", <<u, t.userCovers>>)>>))
             [] t.pc = "edit_deleted" ->
                  /\ Step(h, Go(t, "answer", <<Edit(t, <<"Cover has been deleted", coverName>>, NoButtons)>>))
                  /\ UNCHANGED COVERS_KV
             [] t.pc = "edit_missing" ->
                  /\ Step(h, Go(t, "answer", <<Edit(t, <<"Could not find that cover">>, NoButtons)>>))
                  /\ UNCHANGED COVERS_KV
             [] t.pc = "answer" ->
                  /\ Step(h, End(t, <<Answer(t)>>))
                  /\ UNCHANGED COVERS_KV
    /\ UNCHANGED <<STATS_KV, USER_STORE, userState, nUpdates, http>>

\* lines 678-681
CancelDelete(h) ==
    /\ Running(h, "cancel_delete")
    /\ LET t == task[h] IN
           CASE t.pc = "edit" -> Step(h, Go(t, "answer", <<Edit(t, <<"Deletion cancelled">>, NoButtons)>>))
             [] t.pc = "answer" -> Step(h, End(t, <<Answer(t)>>))
    /\ UNCHANGED <<COVERS_KV, STATS_KV, USER_STORE, userState, nUpdates, http>>

(***************************************************************************)
(* handleCallback, the image family (lines 685-754).                       *)
(***************************************************************************)
\* lines 687-691
PhotoNotFound(h) ==
    /\ Running(h, "photo not found")
    /\ LET t == task[h] IN
           CASE t.pc = "answer" -> Step(h, Go(t, "edit", <<Answer(t)>>))
             [] t.pc = "edit" ->
                  Step(h, End(t, <<Edit(t, <<"Sorry, the original photo could not be found">>, NoButtons)>>))
    /\ UNCHANGED <<COVERS_KV, STATS_KV, USER_STORE, userState, nUpdates, http>>

\* lines 695-734: the primary host once, the fallback host once if the primary
\* attempt threw (network error, status not ok, or its body could not be read)
PasteImage(h) ==
    /\ Running(h, "paste_image")
    /\ LET t == task[h]
           file_id == LargestPhoto(t.update.callback_query.message.reply_to_message.photo)
       IN  CASE t.pc = "edit" ->
                  Step(h, Go(t, "get_file", <<Edit(t, <<"Pasting image, please wait...">>, NoButtons)>>))
             [] t.pc = "get_file" ->
                  \E found \in BOOLEAN :
                      Step(h, Go(t, IF found THEN "fetch_image" ELSE "answer",
                                 <<Call("getFile", <<file_id>>)>>))
             [] t.pc = "fetch_image" -> Step(h, Go(t, "blob", <<Call("fetch", <<"file", file_id>>)>>))
             [] t.pc = "blob" -> Step(h, Go(t, "primary", <<>>))
             [] t.pc = "primary" ->
                  \E ok \in BOOLEAN :
                      Step(h, Go(t, IF ok THEN "primary_text" ELSE "edit_fallback",
                                 <<Call("fetch", <<"https://envs.sh/">>)>>))
             [] t.pc = "primary_text" ->
                  \E ok \in BOOLEAN :
                      Step(h, Go(t, IF ok THEN "edit_link" ELSE "edit_fallback", <<>>))
             [] t.pc = "edit_link" ->
                  Step(h, Go(t, "answer", <<Edit(t, <<"Here is your link", "primary">>, NoButtons)>>))
             [] t.pc = "edit_fallback" ->
                  Step(h, Go(t, "array_buffer",
                             <<Edit(t, <<"Primary paste service failed, trying fallback...">>, NoButtons)>>))
             [] t.pc = "array_buffer" ->
                  \E ok \in BOOLEAN :
                      Step(h, Go(t, IF ok THEN "secondary" ELSE "edit_failed", <<>>))
             [] t.pc = "secondary" ->
                  \E ok \in BOOLEAN :
                      Step(h, Go(t, IF ok THEN "secondary_json" ELSE "edit_failed",
                                 <<Call("fetch", <<"https://api-integretion-unblocked.vercel.app/imgbb">>)>>))
             [] t.pc = "secondary_json" ->
                  \E url \in BOOLEAN :
                      Step(h, Go(t, IF url THEN "edit_link2" ELSE "edit_failed", <<>>))
             [] t.pc = "edit_link2" ->
                  Step(h, Go(t, "answer", <<Edit(t, <<"Here is your link", "fallback">>, NoButtons)>>))
             [] t.pc = "edit_failed" ->
                  Step(h, Go(t, "answer",
                             <<Edit(t, <<"Failed to paste the image using both primary and fallback services">>,
                                    NoButtons)>>))
             [] t.pc = "answer" -> Step(h, End(t, <<Answer(t)>>))
    /\ UNCHANGED <<COVERS_KV, STATS_KV, USER_STORE, userState, nUpdates, http>>

\* lines 735-741
SaveCover(h) ==
    /\ Running(h, "save_cover")
    /\ LET t == task[h] IN
           CASE t.pc = "edit" ->
                  Step(h, Go(t, "answer",
                        <<Edit(t, <<"How would you like to save this cover?">>,
                               {<<Tok("save_default", "")>>, <<Tok("save_with_name", "")>>})>>))
             [] t.pc = "answer" -> Step(h, End(t, <<Answer(t)>>))
    /\ UNCHANGED <<COVERS_KV, STATS_KV, USER_STORE, userState, nUpdates, http>>

\* lines 742-747
SaveDefault(h) ==
    /\ Running(h, "save_default")
    /\ LET t == task[h]
           u == t.userId
           file_id == LargestPhoto(t.update.callback_query.message.reply_to_message.photo)
       IN  CASE t.pc = "covers_get" ->
                  /\ Step(h, Go([t EXCEPT !.userCovers =
                                    SetProp(KvGetOr(COVERS_KV, u, EmptyObject), DEFAULT_COVER_NAME, file_id)],
                                "covers_put", <<Call("COVERS_KV.get", <<u>>)>>))
                  /\ UNCHANGED COVERS_KV
             [] t.pc = "covers_put" ->
                  /\ COVERS_KV' = KvPut(COVERS_KV, u, t.userCovers)
                  /\ Step(h, Go(t, "edit", <<Call("COVERS_KV.put", <<u, t.userCovers>>)>>))
             [] t.pc = "edit" ->
                  /\ Step(h, Go(t, "answer", <<Edit(t, <<"Default cover saved">>, NoButtons)>>))
                  /\ UNCHANGED COVERS_KV
             [] t.pc = "answer" ->
                  /\ Step(h, End(t, <<Answer(t)>>))
                  /\ UNCHANGED COVERS_KV
    /\ UNCHANGED <<STATS_KV, USER_STORE, userState, nUpdates, http>>

\* lines 748-752; the flow state was set before the first await (Receive)
SaveWithName(h) ==
    /\ Running(h, "save_with_name")
    /\ LET t == task[h] IN
           CASE t.pc = "edit" ->
                  Step(h, Go(t, "answer", <<Edit(t, <<"Please reply with a name for this cover">>, NoButtons)>>))
             [] t.pc = "answer" -> Step(h, End(t, <<Answer(t)>>))
    /\ UNCHANGED <<COVERS_KV, STATS_KV, USER_STORE, userState, nUpdates, http>>

(***************************************************************************)
(* handleCallback, the video family (lines 756-863).                       *)
(***************************************************************************)
\* lines 757-761
VideoNotFound(h) ==
    /\ Running(h, "video not found")
    /\ LET t == task[h] IN
           CASE t.pc = "answer" -> Step(h, Go(t, "edit", <<Answer(t)>>))
             [] t.pc = "edit" ->
                  Step(h, End(t, <<Edit(t, <<"Sorry, the original video could not be found">>, NoButtons)>>))
    /\ UNCHANGED <<COVERS_KV, STATS_KV, USER_STORE, userState, nUpdates, http>>

\* lines 767-783
ExtractMetadata(h) ==
    /\ Running(h, "extract_metadata")
    /\ LET t == task[h]
           video == t.update.callback_query.message.reply_to_message.video
       IN  CASE t.pc = "answer" -> Step(h, Go(t, "edit", <<Answer(t)>>))
             [] t.pc = "edit" -> Step(h, End(t, <<Edit(t, <<"General", video.file_id>>, NoButtons)>>))
    /\ UNCHANGED <<COVERS_KV, STATS_KV, USER_STORE, userState, nUpdates, http>>

\* lines 784-814
ExtractMedia(h) ==
    /\ Running(h, "extract_media")
    /\ LET t == task[h]
           video == t.update.callback_query.message.reply_to_message.video
           afterCover == IF video.thumbnail # "" THEN "get_file" ELSE "finish"
       IN  CASE t.pc = "answer" -> Step(h, Go(t, "edit", <<Answer(t)>>))
             [] t.pc = "edit" ->
                  Step(h, Go(t, IF Len(video.cover) > 0 THEN "send_cover" ELSE afterCover,
                             <<Edit(t, <<"Extracting media...">>, NoButtons)>>))
             [] t.pc = "send_cover" ->
                  Step(h, Go([t EXCEPT !.foundMedia = TRUE], afterCover,
                             <<Call("sendPhoto", <<video.cover[Len(video.cover)], <<"Cover">>>>)>>))
             [] t.pc = "get_file" ->
                  \E found \in BOOLEAN :
                      Step(h, Go(t, IF found THEN "fetch_thumb" ELSE "finish",
                                 <<Call("getFile", <<video.thumbnail>>)>>))
             [] t.pc = "fetch_thumb" ->
                  Step(h, Go(t, "thumb_blob", <<Call("fetch", <<"file", video.thumbnail>>)>>))
             [] t.pc = "thumb_blob" -> Step(h, Go(t, "send_thumb", <<>>))
             [] t.pc = "send_thumb" ->
                  Step(h, Go([t EXCEPT !.foundMedia = TRUE], "finish",
                             <<Call("sendPhoto", <<"blob", <<"Thumbnail">>>>)>>))
             [] t.pc = "finish" ->
                  IF t.foundMedia
                  THEN Step(h, End(t, <<Call("deleteMessage", <<t.update.callback_query.message.message_id>>)>>))
                  ELSE Step(h, End(t, <<Edit(t, <<"This video does not have a cover or a thumbnail">>,
                                             NoButtons)>>))
    /\ UNCHANGED <<COVERS_KV, STATS_KV, USER_STORE, userState, nUpdates, http>>

\* lines 815-818: the flow state is set after the acknowledgement was awaited
SetCover(h) ==
    /\ Running(h, "set_cover")
    /\ LET t == task[h]
           message == t.update.callback_query.message
           original == message.reply_to_message
       IN  CASE t.pc = "answer" ->
                  /\ task' = [task EXCEPT ![h] = Go(t, "edit", <<Answer(t)>>)]
                  /\ hist' = [hist EXCEPT !.setCover[t.userId] = t.update.callback_query,
                                           !.setCovers[t.userId] = @ + 1,
                                           !.setter[t.userId] = t.update.callback_query]
                  /\ userState' = MapSet(userState, t.userId,
                                         NewCoverEntry(original.video.file_id, original.caption,
                                                       message.message_id))
             [] t.pc = "edit" ->
                  /\ Step(h, End(t, <<Edit(t, <<"Please send me the new image">>, NoButtons)>>))
                  /\ UNCHANGED userState
    /\ UNCHANGED <<COVERS_KV, STATS_KV, USER_STORE, nUpdates, http>>

\* lines 833-839 and 855-862: count the change, acknowledge, send the video
\* with the saved cover, remove the menu
ApplySaved(h, t, saved_cover_file_id, text) ==
    LET u == t.userId
        message == t.update.callback_query.message
        original == message.reply_to_message
    IN  CASE t.pc = "stats_get" ->
               /\ Step(h, Go([t EXCEPT !.stats = IncCovers(KvGetOr(STATS_KV, u, ZeroStats))],
                             "stats_put", <<Call("STATS_KV.get", <<u>>)>>))
               /\ UNCHANGED STATS_KV
          [] t.pc = "stats_put" ->
               /\ STATS_KV' = KvPut(STATS_KV, u, t.stats)
               /\ Step(h, Go(t, "answer", <<Call("STATS_KV.put", <<u, t.stats>>)>>))
          [] t.pc = "answer" ->
               /\ Step(h, Go(t, "edit", <<Answer(t)>>))
               /\ UNCHANGED STATS_KV
          [] t.pc = "edit" ->
               /\ Step(h, Go(t, "send_video", <<Edit(t, text, NoButtons)>>))
               /\ UNCHANGED STATS_KV
          [] t.pc = "send_video" ->
               /\ Step(h, Go(t, "delete",
                             <<Call("sendVideo", <<original.video.file_id, saved_cover_file_id,
                                                   original.caption>>)>>))
               /\ UNCHANGED STATS_KV
          [] t.pc = "delete" ->
               /\ Step(h, End(t, <<Call("deleteMessage", <<message.message_id>>)>>))
               /\ UNCHANGED STATS_KV

\* a variant that offers the default cover only
ApplyRowsDefaultOnly(userCovers) == {<<Tok("apply_cover_", DEFAULT_COVER_NAME)>>}

\* the rows of the selection menu (line 841)
ApplyRows(userCovers) == {<<Tok("apply_cover_", name)>> : name \in ObjectKeys(userCovers)}

\* lines 819-844
UseSavedCover(h) ==
    /\ Running(h, "use_saved_cover")
    /\ LET t == task[h]
           u == t.userId
           coverNames == ObjectKeys(t.userCovers)
       IN  CASE t.pc = "covers_get" ->
                  /\ LET read == KvGetOr(COVERS_KV, u, EmptyObject)
                         n == Cardinality(ObjectKeys(read))
                     IN  Step(h, Go([t EXCEPT !.userCovers = read],
                                    IF n = 0 THEN "answer_alert"
                                    ELSE IF n = 1 THEN "stats_get" ELSE "edit_menu",
                                    <<Call("COVERS_KV.get", <<u>>)>>))
                  /\ UNCHANGED STATS_KV
             [] t.pc = "answer_alert" ->
                  /\ Step(h, End(t, <<Alert(t, "You have no covers saved!")>>))
                  /\ UNCHANGED STATS_KV
             [] t.pc = "edit_menu" ->
                  /\ Step(h, Go(t, "answer_menu",
                                <<Edit(t, <<"Please choose a cover to apply">>, ApplyRows(t.userCovers))>>))
                  /\ UNCHANGED STATS_KV
             [] t.pc = "answer_menu" ->
                  /\ Step(h, End(t, <<Answer(t)>>))
                  /\ UNCHANGED STATS_KV
             [] OTHER ->
                  ApplySaved(h, t, t.userCovers[CHOOSE name \in coverNames : TRUE],
                             <<"Applying your saved cover...">>)
    /\ UNCHANGED <<COVERS_KV, USER_STORE, userState, nUpdates, http>>

\* lines 845-863
ApplyCover(h) ==
    /\ Running(h, "apply_cover_")
    /\ LET t == task[h]
           u == t.userId
           coverName == t.update.callback_query.data.param
           saved_cover_file_id == GetProp(t.userCovers, coverName)
       IN  CASE t.pc = "covers_get" ->
                  /\ LET read == KvGetOr(COVERS_KV, u, EmptyObject) IN
                     Step(h, Go([t EXCEPT !.userCovers = read],
                                IF ~Truthy(GetProp(read, coverName)) THEN "answer_alert" ELSE "stats_get",
                                <<Call("COVERS_KV.get", <<u>>)>>))
                  /\ UNCHANGED STATS_KV
             [] t.pc = "answer_alert" ->
                  /\ Step(h, End(t, <<Alert(t, "This cover seems to have been deleted.")>>))
                  /\ UNCHANGED STATS_KV
             [] OTHER ->
                  ApplySaved(h, t, saved_cover_file_id, <<"Applying the cover...", coverName>>)
    /\ UNCHANGED <<COVERS_KV, USER_STORE, userState, nUpdates, http>>

(***************************************************************************)
(* Failures.  A store call may throw; so may the raw fetch of a file and   *)
(* the read of its body (lines 700-701, 801-802), which no try block       *)
(* guards.  The exception ends the handler where it is: nothing catches it *)
(* in handleMessage, handleCallback or handleUpdate.  The methods of the   *)
(* TelegramBot class do not throw (apiCall catches, lines 377-389).        *)
(***************************************************************************)
StorePcs == {"covers_get", "covers_put", "stats_get", "stats_put", "users_put", "users_list"}

FetchPcs == {"fetch_image", "blob", "fetch_thumb", "thumb_blob"}

\* a variant in which fetch waits for the handler and answers for its failure
ThrowSurfaced(h) ==
    /\ task' = [task EXCEPT ![h].st = "failed"]
    /\ http' = [http EXCEPT !.status = 500, !.logged = TRUE]
    /\ UNCHANGED <<COVERS_KV, STATS_KV, USER_STORE, userState, nUpdates, hist>>

Throw(h) ==
    /\ task' = [task EXCEPT ![h].st = "failed"]
    /\ UNCHANGED <<COVERS_KV, STATS_KV, USER_STORE, userState, nUpdates, hist, http>>

StoreThrows(h) ==
    /\ task[h].st = "run"
    /\ task[h].pc \in StorePcs
    /\ Throw(h)

FetchThrows(h) ==
    /\ task[h].st = "run"
    /\ task[h].pc \in FetchPcs
    /\ Throw(h)

(***************************************************************************)
(* The steps of a running handler.                                         *)
(***************************************************************************)
Handle(h) ==
    \/ AwaitingCoverName(h)
    \/ StartCommand(h)
    \/ SaveCoverCommand(h)
    \/ SaveCoverUsage(h)
    \/ CoversCommand(h)
    \/ StatsCommand(h)
    \/ UsersxCommand(h)
    \/ VideoMessage(h)
    \/ PhotoCompletion(h)
    \/ PhotoMenu(h)
    \/ SendCover(h)
    \/ ConfirmDelete(h)
    \/ DeleteCover(h)
    \/ CancelDelete(h)
    \/ PhotoNotFound(h)
    \/ PasteImage(h)
    \/ SaveCover(h)
    \/ SaveDefault(h)
    \/ SaveWithName(h)
    \/ VideoNotFound(h)
    \/ ExtractMetadata(h)
    \/ ExtractMedia(h)
    \/ SetCover(h)
    \/ UseSavedCover(h)
    \/ ApplyCover(h)
    \/ StoreThrows(h)
    \/ FetchThrows(h)

(***************************************************************************)
(* Spec: the updates of user u1 over the full sets of names, photos,       *)
(* videos and prompts, and /start of a second user, handled one after      *)
(* another (an update arrives when no handler is running).                 *)
(***************************************************************************)
CoverNames == {DEFAULT_COVER_NAME, "a", "__proto__"}

Updates ==
    UpdatesOf("u1", CoverNames, {P1, P2}, {V1, V2}, {2, 3})
    \cup {Update(NoCallback, Message("u2", 1, "/start", NoReply, NoReply))}

Next ==
    \/ \E update \in Updates : Quiescent /\ Receive(1, update)
    \/ Handle(1)

Spec == Init /\ [][Next]_vars

(***************************************************************************)
(* LiveSpec: Spec with every awaited call of the running handler returning *)
(* or failing in the end (a running handler eventually takes its step).    *)
(***************************************************************************)
LiveSpec == Spec /\ WF_vars(Handle(1))

(***************************************************************************)
(* ConcSpec: handlers of one user running concurrently (fetch hands every  *)
(* update to ctx.waitUntil and returns, lines 474-477, so a second update  *)
(* is dispatched while the handler of the first is suspended at an await). *)
(* The updates are those whose handlers read and write the shared records  *)
(* and the flow state.                                                     *)
(***************************************************************************)
ConcUpdates ==
    {Update(NoCallback, Message("u1", 1, "", VideoMessageOf(V1), NoReply)),
     Update(NoCallback, Message("u1", 1, "", PhotoMessageOf(P1), NoReply)),
     Update(NoCallback, Message("u1", 1, "/save_cover a", NoReply, PhotoMessageOf(P1))),
     Update(NoCallback, Message("u1", 1, "/save_cover", NoReply, PhotoMessageOf(P2))),
     Update(CallbackQuery("u1", Tok("set_cover", ""), 2, VideoMessageOf(V1)), NoMessage),
     Update(CallbackQuery("u1", Tok("use_saved_cover", ""), 2, VideoMessageOf(V1)), NoMessage),
     Update(CallbackQuery("u1", Tok("apply_cover_", "a"), 2, VideoMessageOf(V1)), NoMessage)}

ConcHandle(h) ==
    \/ SaveCoverCommand(h)
    \/ VideoMessage(h)
    \/ PhotoCompletion(h)
    \/ PhotoMenu(h)
    \/ SetCover(h)
    \/ UseSavedCover(h)
    \/ ApplyCover(h)
    \/ StoreThrows(h)

ConcNext ==
    \/ \E h \in Slots, update \in ConcUpdates : Receive(h, update)
    \/ \E h \in Slots : ConcHandle(h)

ConcSpec == Init /\ [][ConcNext]_vars

(***************************************************************************)
(* FetchSpec: every kind of request to fetch, with handlers running while  *)
(* further requests arrive; the updates are a video message, /start and an *)
(* update that carries neither a callback nor a message.                   *)
(***************************************************************************)
FetchUpdates ==
    {Update(NoCallback, Message("u1", 1, "", VideoMessageOf(V1), NoReply)),
     Update(NoCallback, Message("u1", 1, "/start", NoReply, NoReply)),
     Update(NoCallback, NoMessage)}

FetchHandle(h) ==
    \/ VideoMessage(h)
    \/ StartCommand(h)
    \/ StoreThrows(h)

FetchNext ==
    \/ \E h \in Slots, update \in FetchUpdates : Receive(h, update)
    \/ \E req \in Requests : FetchUnconfigured(req)
    \/ \E req \in Requests : FetchUndecodable(req)
    \/ \E req \in Requests : FetchDelete(req)
    \/ \E req \in Requests : FetchSetWebhook(req)
    \/ \E h \in Slots : FetchHandle(h)

FetchSpec == Init /\ [][FetchNext]_vars

(***************************************************************************)
(* Properties.                                                             *)
(***************************************************************************)
(***************************************************************************)
(* IsoSpec: two users whose handlers run concurrently; each sends the      *)
(* updates that write a record or the flow state: a video, set_cover, a    *)
(* photo, /save_cover a in reply to a photo, delete_cover_a.  The sender   *)
(* of the message a button is on or an update replies to is not part of an *)
(* update: no handler reads it.                                            *)
(***************************************************************************)
IsoUpdatesOf(u) ==
    {Update(NoCallback, Message(u, 1, "", VideoMessageOf(V1), NoReply)),
     Update(NoCallback, Message(u, 1, "", PhotoMessageOf(P1), NoReply)),
     Update(NoCallback, Message(u, 1, "/save_cover a", NoReply, PhotoMessageOf(P1))),
     Update(CallbackQuery(u, Tok("set_cover", ""), 2, VideoMessageOf(V1)), NoMessage),
     Update(CallbackQuery(u, Tok("delete_cover_", "a"), 2, NoReply), NoMessage)}

IsoHandle(h) ==
    \/ SaveCoverCommand(h)
    \/ VideoMessage(h)
    \/ PhotoCompletion(h)
    \/ PhotoMenu(h)
    \/ DeleteCover(h)
    \/ SetCover(h)

IsoNext ==
    \/ \E h \in Slots, u \in Users : \E update \in IsoUpdatesOf(u) : Receive(h, update)
    \/ \E h \in Slots : IsoHandle(h)

IsoSpec == Init /\ [][IsoNext]_vars

Count(out, m) == Cardinality({i \in 1..Len(out) : out[i].m = m})

Ended(t) == t.st \in {"done", "failed"}

Stats(u) == KvGetOr(STATS_KV, u, ZeroStats)

Covers(u) == KvGetOr(COVERS_KV, u, EmptyObject)

IsPhotoMessage(update) ==
    IsMessage(update) /\ update.message.text = "" /\ update.message.video = NoVideo
    /\ update.message.photo # <<>>

\* C1: every callback whose handler has ended normally, whatever its token and
\* whichever branch ran, was acknowledged (answerCallbackQuery) exactly once.
C1_AcknowledgedExactlyOnce ==
    \A h \in Slots :
        (task[h].st = "done" /\ IsCallback(task[h].update))
            => Count(task[h].out, "answerCallbackQuery") = 1

\* C2: the photo that follows a handled set_cover of the same user is taken as
\* the completion of that interaction, and the photo that follows a completion
\* that has ended (it re-sent the video) is taken as an ordinary photo: it gets
\* the paste/save menu.
C2_PhotoAfterSetCover ==
    [][\A h \in Slots :
          (Ended(task[h]) /\ task'[h].st = "run" /\ IsPhotoMessage(task'[h].update)
           /\ task'[h].userId = task[h].userId)
            => /\ (task[h].st = "done" /\ task[h].br = "set_cover")
                     => task'[h].br = "awaiting_new_cover"
               /\ (task[h].br = "awaiting_new_cover" /\ SentVideo(task[h]))
                     => task'[h].br = "photo"]_vars

\* C3: once the handler that completes an awaiting-new-cover or awaiting-name
\* interaction of a user has ended, normally or by a failure, userState holds
\* no entry for that user.
C3_EntryRemovedWhenResolved ==
    \A h \in Slots :
        (Ended(task[h]) /\ task[h].br \in {"awaiting_new_cover", "awaiting_cover_name"})
            => ~MapHas(userState, task[h].userId)

\* C4: no step, under any interleaving of the handlers of a user, lowers the
\* stored videos_processed or covers_changed of a user.
C4_CountersNeverDecrease ==
    [][\A u \in Users :
          /\ KvGetOr(STATS_KV', u, ZeroStats).videos_processed >= Stats(u).videos_processed
          /\ KvGetOr(STATS_KV', u, ZeroStats).covers_changed >= Stats(u).covers_changed]_vars

(***************************************************************************)
(* C5: with the handlers of a user run one after another, the record of a  *)
(* user starts at 0/0; every video message handled adds exactly one to     *)
(* videos_processed and nothing to covers_changed, and every application   *)
(* of a saved cover (apply_cover_ of a saved name, use_saved_cover with a  *)
(* single cover) adds exactly one to covers_changed and nothing to         *)
(* videos_processed.  The other writers of covers_changed (the photo that  *)
(* completes set_cover, an apply_cover_ that reads an inherited value) are *)
(* counted apart.                                                          *)
(***************************************************************************)
C5_CountersCountEvents ==
    Quiescent =>
        \A u \in Users :
            /\ Stats(u).videos_processed = hist.videos[u]
            /\ Stats(u).covers_changed =
                   hist.applied[u] + hist.recovered[u] + hist.inherited[u]

C5_Witness ==
    /\ Quiescent
    /\ hist.videos["u1"] = 1
    /\ hist.applied["u1"] = 1
    /\ Stats("u1") = [videos_processed |-> 1, covers_changed |-> 1]

Calls(out, m) == {i \in 1..Len(out) : out[i].m = m}

StorePuts(out) ==
    {i \in 1..Len(out) : out[i].m \in {"COVERS_KV.put", "STATS_KV.put", "USER_STORE.put"}}

(***************************************************************************)
(* C6: a use_saved_cover handler that has ended, on a message replying to  *)
(* a video, with k the number of entries of the user's Cover Record:       *)
(* k = 0: one acknowledgement, with an alert text, no store write, no      *)
(* video; k = 1: the replied video sent once with the single saved cover,  *)
(* covers_changed one more than when the callback arrived; k >= 2: the     *)
(* message edited to a menu of exactly k rows, one apply_cover_<name> per  *)
(* saved name, no video, counters as when the callback arrived.            *)
(***************************************************************************)
C6_UseSavedCoverBranches ==
    \A h \in Slots :
        (task[h].st = "done" /\ task[h].br = "use_saved_cover") =>
            LET t == task[h]
                out == t.out
                u == t.userId
                covers == Covers(u)
                k == Cardinality(ObjectKeys(covers))
                video == t.update.callback_query.message.reply_to_message.video
            IN  /\ k = 0 =>
                      /\ \A i \in Calls(out, "answerCallbackQuery") : out[i].a[2] # ""
                      /\ Count(out, "answerCallbackQuery") = 1
                      /\ StorePuts(out) = {}
                      /\ Count(out, "sendVideo") = 0
                      /\ Stats(u) = hist.before[h]
                /\ k = 1 =>
                      /\ Count(out, "sendVideo") = 1
                      /\ \A i \in Calls(out, "sendVideo") :
                            /\ out[i].a[1] = video.file_id
                            /\ \A name \in ObjectKeys(covers) : out[i].a[2] = covers[name]
                      /\ Stats(u) = [hist.before[h] EXCEPT !.covers_changed = @ + 1]
                /\ k >= 2 =>
                      /\ Count(out, "editMessageText") = 1
                      /\ \A i \in Calls(out, "editMessageText") :
                            /\ Cardinality(out[i].a[3]) = k
                            /\ out[i].a[3] =
                                  {<<Tok("apply_cover_", name)>> : name \in ObjectKeys(covers)}
                      /\ Count(out, "sendVideo") = 0
                      /\ Stats(u) = hist.before[h]

C6_Witness ==
    \E h \in Slots :
        /\ task[h].st = "done"
        /\ task[h].br = "use_saved_cover"
        /\ Cardinality(ObjectKeys(Covers(task[h].userId))) = 2
        /\ Count(task[h].out, "editMessageText") = 1

(***************************************************************************)
(* C7: an apply_cover_<name> handler that has ended, for a name that is    *)
(* not an entry of the user's Cover Record, has answered once with an      *)
(* alert, has sent no video, has written no store, and the user's counters *)
(* are as when the callback arrived.                                       *)
(***************************************************************************)
C7_ApplyMissingCover ==
    \A h \in Slots :
        LET t == task[h]
            name == t.update.callback_query.data.param
        IN  (t.st = "done" /\ t.br = "apply_cover_"
                /\ name \notin ObjectKeys(Covers(t.userId))) =>
                /\ Count(t.out, "answerCallbackQuery") = 1
                /\ \A i \in Calls(t.out, "answerCallbackQuery") : t.out[i].a[2] # ""
                /\ Count(t.out, "sendVideo") = 0
                /\ StorePuts(t.out) = {}
                /\ Stats(t.userId) = hist.before[h]

(***************************************************************************)
(* C8: with the handlers of a user run one after another, a save that has  *)
(* ended (/save_cover N in reply to a photo, save_default, the name typed  *)
(* after save_with_name) leaves an entry N holding the saved photo in the  *)
(* user's Cover Record; /covers lists one row per entry of the record, or  *)
(* reports that there are none when the record is empty; delete_cover_N    *)
(* that has ended leaves no entry N.                                       *)
(***************************************************************************)
C8_CoverRoundTrip ==
    \A h \in Slots :
        LET t == task[h]
            covers == Covers(t.userId)
            message == t.update.message
            callback_query == t.update.callback_query
        IN  t.st = "done" =>
              /\ t.br = "/save_cover" =>
                    /\ CoverNameArg(message.text) \in ObjectKeys(covers)
                    /\ covers[CoverNameArg(message.text)] =
                          LargestPhoto(message.reply_to_message.photo)
              /\ t.br = "save_default" => DEFAULT_COVER_NAME \in ObjectKeys(covers)
              /\ t.br = "awaiting_cover_name" =>
                    /\ message.text \in ObjectKeys(covers)
                    /\ covers[message.text] = t.entry.file_id
              /\ t.br = "/covers" =>
                    IF ObjectKeys(covers) = {}
                    THEN Count(t.out, "sendMessage") = 1 /\ Count(t.out, "sendInlineKeyboard") = 0
                    ELSE \A i \in Calls(t.out, "sendInlineKeyboard") :
                            /\ Cardinality(t.out[i].a[2]) = Cardinality(ObjectKeys(covers))
                            /\ \A name \in ObjectKeys(covers) :
                                  \E row \in t.out[i].a[2] : row[1].param = name
              /\ t.br = "delete_cover_" =>
                    callback_query.data.param \notin ObjectKeys(covers)

SavedFile(t) ==
    IF t.br = "save_default"
    THEN LargestPhoto(t.update.callback_query.message.reply_to_message.photo)
    ELSE LargestPhoto(t.update.message.reply_to_message.photo)

(***************************************************************************)
(* C9: with the handlers of a user run one after another, a save with no   *)
(* name (/save_cover alone, save_default) and a save with the name         *)
(* __default__ write the same slot: no step of such a handler adds,        *)
(* removes or changes an entry of the Cover Record other than __default__, *)
(* and when the handler ends the entry __default__ holds the photo of that *)
(* save, whatever an earlier save of either kind had put there.            *)
(***************************************************************************)
C9_DefaultSlot ==
    [][\A h \in Slots :
          (task[h].st = "run" /\ IsDefaultSave(task[h])) =>
              LET u == task[h].userId
                  old == Covers(u)
                  new == KvGetOr(COVERS_KV', u, EmptyObject)
              IN  /\ ObjectKeys(old) \ {DEFAULT_COVER_NAME} = ObjectKeys(new) \ {DEFAULT_COVER_NAME}
                  /\ \A name \in ObjectKeys(old) \ {DEFAULT_COVER_NAME} : new[name] = old[name]
                  /\ task'[h].st = "done" =>
                        /\ DEFAULT_COVER_NAME \in ObjectKeys(new)
                        /\ new[DEFAULT_COVER_NAME] = SavedFile(task[h])]_vars

C9_Witness ==
    \E h \in Slots :
        LET t == task[h]
            covers == Covers(t.userId)
        IN  /\ t.st = "done"
            /\ t.br = "/save_cover"
            /\ t.update.message.text = "/save_cover __default__"
            /\ "/save_cover" \in hist.defaultSaves[t.userId]
            /\ ObjectKeys(covers) = {DEFAULT_COVER_NAME, "a"}
            /\ covers[DEFAULT_COVER_NAME] = SavedFile(t)
            /\ covers[DEFAULT_COVER_NAME] # covers["a"]

(***************************************************************************)
(* C10, as stated: with the handlers run one after another, the number of  *)
(* keys of the registry, and the tally a /usersx reports, is the number of *)
(* distinct users whose text /start has been handled.                      *)
(***************************************************************************)
C10_TallyCountsStartSenders ==
    Quiescent =>
        /\ Cardinality(DOMAIN USER_STORE) = Cardinality(hist.sentStart)
        /\ \A h \in Slots :
              (task[h].st = "done" /\ task[h].br = "/usersx") =>
                  task[h].userCount = Cardinality(hist.sentStart)

(***************************************************************************)
(* C10, amended: the tally is the number of distinct users whose /start    *)
(* was handled as a command, that is, while no cover name was awaited from *)
(* them; however often a user has sent it, the user counts once.           *)
(***************************************************************************)
C10_TallyCountsStartCommands ==
    Quiescent =>
        /\ Cardinality(DOMAIN USER_STORE) = Cardinality(hist.startCommands)
        /\ hist.startCommands = {u \in Users : hist.starts[u] > 0}
        /\ \A h \in Slots :
              (task[h].st = "done" /\ task[h].br = "/usersx") =>
                  task[h].userCount = Cardinality(hist.startCommands)

C10_Witness ==
    \E h \in Slots :
        /\ task[h].st = "done"
        /\ task[h].br = "/usersx"
        /\ hist.starts["u1"] = 2
        /\ task[h].userCount = 1

(***************************************************************************)
(* C11: a text of a user from whom a cover name is awaited is the name,    *)
(* whatever it says: when its handler has ended, the Cover Record of the   *)
(* user holds the file kept in the flow state under exactly that text, the *)
(* entry is gone, the one call made to the platform is the edit of the     *)
(* prompting message, and no store but COVERS_KV was touched.              *)
(***************************************************************************)
C11_TextIsTheCoverName ==
    \A h \in Slots :
        LET t == task[h]
            text == t.update.message.text
            covers == Covers(t.userId)
        IN  (t.st = "done" /\ IsMessage(t.update) /\ text # ""
                /\ t.pending = "awaiting_cover_name") =>
                /\ text \in ObjectKeys(covers)
                /\ covers[text] = t.entry.file_id
                /\ ~MapHas(userState, t.userId)
                /\ Count(t.out, "editMessageText") = 1
                /\ \A i \in Calls(t.out, "editMessageText") : t.out[i].a[1] = t.entry.message_id
                /\ \A i \in 1..Len(t.out) :
                      t.out[i].m \in {"COVERS_KV.get", "COVERS_KV.put", "editMessageText"}

CallbackHandlerBranches ==
    CoverMenuKeywords \cup ImageKeywords \cup VideoKeywords
        \cup {"photo not found", "video not found", "none"}

MessageHandlerBranches ==
    {"awaiting_cover_name", "/start", "/save_cover", "/save_cover usage", "/covers",
     "/stats", "/usersx", "video", "awaiting_new_cover", "photo", "none"}

MessageHandlerCalls == {"USER_STORE.put", "USER_STORE.list", "sendMessage", "sendInlineKeyboard"}

(***************************************************************************)
(* C12: an update that carries a callback is handled by the Callback       *)
(* Handler only, also when it carries a message (nothing of the message's  *)
(* command is done); an update that carries a message and no callback is   *)
(* handled by the Message Handler only (no acknowledgement of a callback); *)
(* an update that carries neither ends at once, normally, with no call to  *)
(* a store or to the platform.                                             *)
(***************************************************************************)
C12_RoutedToOneHandler ==
    \A h \in Slots :
        LET t == task[h]
            update == t.update
        IN  t.st # "idle" =>
              /\ update.callback_query # NoCallback =>
                    /\ t.br \in CallbackHandlerBranches
                    /\ t.br = CallbackBranch(update.callback_query)
                    /\ t.userId = update.callback_query.from
                    /\ \A i \in 1..Len(t.out) : t.out[i].m \notin MessageHandlerCalls
              /\ (update.callback_query = NoCallback /\ update.message # NoMessage) =>
                    /\ t.br \in MessageHandlerBranches
                    /\ t.userId = update.message.from
                    /\ Count(t.out, "answerCallbackQuery") = 0
              /\ (update.callback_query = NoCallback /\ update.message = NoMessage) =>
                    /\ t.st = "done"
                    /\ t.out = <<>>

C12_Witness ==
    \E h \in Slots :
        /\ task[h].st = "done"
        /\ task[h].update.callback_query # NoCallback
        /\ task[h].update.message.text = "/start"
        /\ Count(task[h].out, "answerCallbackQuery") = 1
        /\ DOMAIN USER_STORE = {}

\* the slot the handler of the next update takes
ReceivingSlot == CHOOSE h \in Slots : Free(h) /\ \A g \in Slots : g < h => ~Free(g)

(***************************************************************************)
(* C13, as stated: the step that dispatches the update of a POST to        *)
(* /webhook answers 200 and leaves the handler of the update unfinished.   *)
(***************************************************************************)
C13_AnsweredBeforeHandlerEnds ==
    [][nUpdates' = nUpdates + 1 =>
          /\ http'.path = "/webhook"
          /\ http'.status = 200
          /\ task'[ReceivingSlot].st = "run"]_vars

(***************************************************************************)
(* C13, amended: the step that dispatches the update of a POST to /webhook *)
(* answers 200 when the handler has completed none of its awaited calls    *)
(* (it is suspended at the first, or has returned without making any), and *)
(* no later step of a handler, failure included, changes the response.     *)
(***************************************************************************)
C13_AnsweredWithoutWaiting ==
    [][/\ nUpdates' = nUpdates + 1 =>
             /\ http'.path = "/webhook"
             /\ http'.status = 200
             /\ ~http'.logged
             /\ task'[ReceivingSlot].st \in {"run", "done"}
             /\ task'[ReceivingSlot].out = <<>>
             /\ task'[ReceivingSlot].st = "done" => FirstPc(task'[ReceivingSlot].br) = "end"
       /\ (nUpdates' = nUpdates /\ task' # task) => http' = http]_vars

C13_Witness ==
    /\ http.path = "/webhook"
    /\ http.status = 200
    /\ \E h \in Slots : task[h].st = "failed"
    /\ \E h \in Slots : task[h].st = "done" /\ task[h].out # <<>>

(***************************************************************************)
(* C14: a failure while a POST to /webhook is processed is logged and      *)
(* answered with 500: the request whose body does not decode, and the step *)
(* at which the handler started for an update fails.                       *)
(***************************************************************************)
C14_FailuresSurfaced ==
    [][/\ (http'.path = "/webhook" /\ Bindings \subseteq http'.env /\ ~http'.decodable) =>
             (http'.status = 500 /\ http'.logged)
       /\ \A h \in Slots :
             (task[h].st = "run" /\ task'[h].st = "failed") =>
                 (http'.status = 500 /\ http'.logged)]_vars

(***************************************************************************)
(* C15: a request that arrives while a required binding is missing is      *)
(* answered with 500 whatever its path, and the step that answers it       *)
(* starts no handler, leaves the stores and the flow state as they are and *)
(* calls neither setWebhook nor deleteWebhook.                             *)
(***************************************************************************)
C15_MissingBindingIsFatal ==
    [][(http' # http /\ ~(Bindings \subseteq http'.env)) =>
          /\ http'.status = 500
          /\ http'.calls = <<>>
          /\ UNCHANGED <<COVERS_KV, STATS_KV, USER_STORE, userState, task, nUpdates>>]_vars

C15_Witness ==
    /\ http.path = "/delete"
    /\ http.env = Bindings \ {"USER_STORE"}
    /\ http.status = 500
    /\ http.calls = <<>>
    /\ nUpdates > 0

\* the precondition of the command or token of an update is not met
PreconditionFails(update) ==
    IF update.callback_query # NoCallback
    THEN LET kw == update.callback_query.data.kw
             reply == update.callback_query.message.reply_to_message
         IN  \/ kw \in ImageKeywords /\ (reply.message_id = 0 \/ reply.photo = <<>>)
             \/ kw \in VideoKeywords /\ (reply.message_id = 0 \/ reply.video = NoVideo)
    ELSE LET message == update.message
         IN  /\ message # NoMessage
             /\ message.text # ""
             /\ Split(message.text)[1] = "/save_cover"
             /\ (message.reply_to_message.message_id = 0
                    \/ message.reply_to_message.photo = <<>>)

Notices(out) == Count(out, "sendMessage") + Count(out, "editMessageText")

(***************************************************************************)
(* C16, as stated: no step of a handler whose precondition is not met      *)
(* (/save_cover not replying to a photo, an image token on a message not   *)
(* replying to a photo, a video token on a message not replying to a       *)
(* video) changes the Cover Records, the counters or the flow state; the   *)
(* handler does not fail, and when it has ended it has sent or edited      *)
(* exactly one notice.                                                     *)
(***************************************************************************)
C16_PreconditionFailure ==
    [][\A h \in Slots :
          (task[h].st = "run" /\ PreconditionFails(task[h].update)) =>
              /\ UNCHANGED <<COVERS_KV, STATS_KV, userState>>
              /\ task'[h].st \in {"run", "done"}
              /\ task'[h].st = "done" => Notices(task'[h].out) = 1]_vars

(***************************************************************************)
(* C16, amended: the same, except for a /save_cover text sent while a      *)
(* cover name is awaited from the user, which is the name (C11).           *)
(***************************************************************************)
C16_PreconditionFailureUnlessNamed ==
    [][\A h \in Slots :
          (task[h].st = "run" /\ PreconditionFails(task[h].update)
              /\ ~(IsMessage(task[h].update) /\ task[h].pending = "awaiting_cover_name")) =>
              /\ UNCHANGED <<COVERS_KV, STATS_KV, userState>>
              /\ task'[h].st \in {"run", "done"}
              /\ task'[h].st = "done" => Notices(task'[h].out) = 1]_vars

C16_Witness ==
    \E h \in Slots :
        /\ task[h].st = "done"
        /\ PreconditionFails(task[h].update)
        /\ task[h].update.callback_query.data.kw = "set_cover"
        /\ Notices(task[h].out) = 1
        /\ MapHas(userState, task[h].userId)
        /\ userState[task[h].userId].action = "awaiting_cover_name"

Fetches(out, url) == {i \in 1..Len(out) : out[i].m = "fetch" /\ out[i].a = <<url>>}

Edits(out, text) == {i \in 1..Len(out) : out[i].m = "editMessageText" /\ out[i].a[2] = text}

(***************************************************************************)
(* C17: a paste_image handler that has ended, on a message replying to a   *)
(* photo, has tried the primary host exactly once and first; it has tried  *)
(* the fallback host, once, exactly when the primary attempt gave no link; *)
(* the message shows a link exactly when one of the attempts gave one and  *)
(* the failure text exactly when neither did.                              *)
(***************************************************************************)
C17_TwoTierFallback ==
    \A h \in Slots :
        (task[h].st = "done" /\ task[h].br = "paste_image") =>
            LET out == task[h].out
                primary == Fetches(out, "https://envs.sh/")
                secondary == Fetches(out, "https://api-integretion-unblocked.vercel.app/imgbb")
                link1 == Edits(out, <<"Here is your link", "primary">>)
                link2 == Edits(out, <<"Here is your link", "fallback">>)
                failed == Edits(out,
                    <<"Failed to paste the image using both primary and fallback services">>)
            IN  /\ Cardinality(primary) = 1
                /\ Cardinality(secondary) = (IF link1 = {} THEN 1 ELSE 0)
                /\ \A i \in primary, j \in secondary : i < j
                /\ Cardinality(link1) + Cardinality(link2) + Cardinality(failed) = 1
                /\ Count(out, "answerCallbackQuery") = 1

IsVideoMessage(update) ==
    IsMessage(update) /\ update.message.text = "" /\ update.message.video # NoVideo

(***************************************************************************)
(* C18: with handlers running concurrently, the stored videos_processed of *)
(* a user never exceeds the number of the user's video messages handled,   *)
(* and can stay below it: when the handlers of two video messages of a     *)
(* user with no record have both ended, the counter is 1 (one update lost, *)
(* the witness) or 2.                                                      *)
(***************************************************************************)
C18_UpdatesCanBeLost ==
    Quiescent =>
        /\ \A u \in Users : Stats(u).videos_processed <= hist.videos[u]
        /\ (nUpdates = 2 /\ \A h \in Slots :
                                /\ task[h].st = "done"
                                /\ IsVideoMessage(task[h].update)
                                /\ task[h].userId = "u1") =>
              Stats("u1").videos_processed \in {1, 2}

C18_Witness ==
    /\ nUpdates = 2
    /\ \A h \in Slots :
          /\ task[h].st = "done"
          /\ IsVideoMessage(task[h].update)
          /\ task[h].userId = "u1"
          /\ Count(task[h].out, "STATS_KV.put") = 1
    /\ hist.videos["u1"] = 2
    /\ Stats("u1").videos_processed = 1

StoreCalls ==
    {"COVERS_KV.get", "COVERS_KV.put", "STATS_KV.get", "STATS_KV.put",
     "USER_STORE.put", "USER_STORE.list"}

(***************************************************************************)
(* C19: with the handlers run one after another, a handler writes a store  *)
(* before it makes any call to the platform, and what it wrote stays in    *)
(* the store as written, through its later calls and also when it ends by  *)
(* a failure.                                                              *)
(***************************************************************************)
C19_NoRollback ==
    \A h \in Slots :
        LET t == task[h]
            out == t.out
        IN  t.st # "idle" =>
              /\ \A i \in StorePuts(out), j \in 1..Len(out) :
                    out[j].m \notin StoreCalls => i < j
              /\ \A i \in Calls(out, "STATS_KV.put") :
                    /\ out[i].a[1] \in DOMAIN STATS_KV
                    /\ STATS_KV[out[i].a[1]] = out[i].a[2]
              /\ \A i \in Calls(out, "COVERS_KV.put") :
                    /\ out[i].a[1] \in DOMAIN COVERS_KV
                    /\ COVERS_KV[out[i].a[1]] = out[i].a[2]

C19_Witness ==
    \E h \in Slots :
        /\ task[h].st = "failed"
        /\ task[h].br = "awaiting_new_cover"
        /\ Count(task[h].out, "STATS_KV.put") = 1
        /\ Count(task[h].out, "sendVideo") = 1
        /\ Stats(task[h].userId).covers_changed = 1

(***************************************************************************)
(* C20: a handler of a cover-management token (send_cover_, cancel_delete, *)
(* confirm_delete_, delete_cover_) runs its own branch whether or not the  *)
(* message replies to anything; none of its steps changes the counters or  *)
(* the flow state; only delete_cover_<name> changes the Cover Record, by   *)
(* removing the entry <name> and nothing else; when <name> is no entry of  *)
(* the record the handler writes no store and reports that the cover was   *)
(* not found.                                                              *)
(***************************************************************************)
C20_CoverManagementFrame ==
    [][\A h \in Slots :
          LET t == task[h]
              kw == t.update.callback_query.data.kw
              name == t.update.callback_query.data.param
              old == Covers(t.userId)
              new == KvGetOr(COVERS_KV', t.userId, EmptyObject)
          IN  (t.st = "run" /\ IsCallback(t.update) /\ kw \in CoverMenuKeywords) =>
                /\ t.br = kw
                /\ UNCHANGED <<STATS_KV, userState>>
                /\ kw # "delete_cover_" => UNCHANGED COVERS_KV
                /\ kw = "delete_cover_" =>
                      /\ ObjectKeys(new) \in {ObjectKeys(old), ObjectKeys(old) \ {name}}
                      /\ \A n \in ObjectKeys(new) : new[n] = old[n]
                      /\ task'[h].st = "done" => name \notin ObjectKeys(new)
                /\ (kw = "delete_cover_" /\ name \notin ObjectKeys(old)) =>
                      /\ UNCHANGED COVERS_KV
                      /\ task'[h].st = "done" =>
                            /\ StorePuts(task'[h].out) = {}
                            /\ Edits(task'[h].out, <<"Could not find that cover">>) # {}]_vars

IsPrefix(s, t) == Len(s) <= Len(t) /\ \A i \in 1..Len(s) : s[i] = t[i]

\* the calls of a photo completion, in the order of lines 616-629, for the
\* counters found when the photo arrived and the entry then held
CompletionCalls(h) ==
    LET t == task[h]
        u == t.userId
        message == t.update.message
        stats == [hist.before[h] EXCEPT !.covers_changed = @ + 1]
    IN  <<Call("STATS_KV.get", <<u>>),
          Call("STATS_KV.put", <<u, stats>>),
          Call("deleteMessage", <<message.message_id>>),
          Call("deleteMessage", <<t.entry.message_id>>),
          Call("sendMessage", <<<<"Applying new cover and sending video...">>, 0>>),
          Call("sendVideo", <<t.entry.file_id, LargestPhoto(message.photo),
                              t.entry.original_caption>>),
          Call("deleteMessage", <<WorkingMsgId>>)>>

(***************************************************************************)
(* C21: with the handlers run one after another, the calls of a photo      *)
(* completion are, in this order: the counters read and written with       *)
(* covers_changed one higher, the photo message deleted, the prompt        *)
(* deleted, the working notice sent, the video sent, the working notice    *)
(* deleted.  While the handler runs the user's flow-state entry is the one *)
(* it found; when it has ended normally it has made all of the calls and   *)
(* the entry is gone.                                                      *)
(***************************************************************************)
C21_CompletionOrder ==
    \A h \in Slots :
        LET t == task[h] IN
        t.br = "awaiting_new_cover" =>
            /\ IsPrefix(t.out, CompletionCalls(h))
            /\ t.st = "run" =>
                  /\ MapHas(userState, t.userId)
                  /\ userState[t.userId] = t.entry
            /\ t.st = "done" =>
                  /\ t.out = CompletionCalls(h)
                  /\ ~MapHas(userState, t.userId)

C21_Witness ==
    \E h \in Slots :
        /\ task[h].st = "done"
        /\ task[h].br = "awaiting_new_cover"
        /\ Len(task[h].out) = 7
        /\ Stats(task[h].userId).covers_changed = 1
        /\ ~MapHas(userState, task[h].userId)

(***************************************************************************)
(* C22: with the handlers run one after another, a photo completion that   *)
(* has sent the video has sent the video and the caption of the message    *)
(* the user's last set_cover callback replied to, with the largest size of *)
(* the completing photo as cover, and has deleted the message that         *)
(* callback's button was on, whatever the user sent in between.            *)
(***************************************************************************)
C22_CompletionUsesHeldData ==
    \A h \in Slots :
        LET t == task[h]
            out == t.out
            set == hist.setCover[t.userId].message
        IN  (t.br = "awaiting_new_cover" /\ SentVideo(t)) =>
              /\ \A i \in Calls(out, "sendVideo") :
                    out[i].a = <<set.reply_to_message.video.file_id,
                                 LargestPhoto(t.update.message.photo),
                                 set.reply_to_message.caption>>
              /\ out[4] = Call("deleteMessage", <<set.message_id>>)

\* three updates were handled, the set_cover was for video v2 on prompt 3
C22_Witness ==
    \E h \in Slots :
        /\ task[h].st = "done"
        /\ task[h].br = "awaiting_new_cover"
        /\ nUpdates = 3
        /\ \E i \in Calls(task[h].out, "sendVideo") :
              task[h].out[i].a = <<"v2", "p2", "c2">>
        /\ task[h].out[4] = Call("deleteMessage", <<3>>)

\* the handler's message is the command: its first word is the command and
\* no cover name was awaited from the user when it arrived (line 512)
IsCommand(t, command) ==
    /\ IsMessage(t.update)
    /\ t.update.message.text # ""
    /\ Split(t.update.message.text)[1] = command
    /\ t.pending # "awaiting_cover_name"

(***************************************************************************)
(* C23: no step of a /covers handler changes the Cover Record, the         *)
(* counters or the flow state; when it ends normally, with k the number of *)
(* entries of the user's Cover Record: for k = 0 it has sent the 'no saved *)
(* covers' notice and no menu, for k >= 1 it has sent one menu and no      *)
(* notice, the menu has exactly k rows, one per saved name, and the row of *)
(* a name holds send_cover_<name> and confirm_delete_<name>.               *)
(***************************************************************************)
C23_CoversMenu ==
    [][\A h \in Slots :
          LET t == task[h]
              out == task'[h].out
              names == ObjectKeys(Covers(t.userId))
              k == Cardinality(names)
          IN  (t.st = "run" /\ IsCommand(t, "/covers")) =>
                /\ UNCHANGED <<COVERS_KV, STATS_KV, userState>>
                /\ task'[h].st = "done" =>
                      /\ k = 0 =>
                            /\ Count(out, "sendInlineKeyboard") = 0
                            /\ Count(out, "sendMessage") = 1
                            /\ \A i \in Calls(out, "sendMessage") :
                                  out[i].a[1] = <<"You don't have any saved covers">>
                      /\ k >= 1 =>
                            /\ Count(out, "sendMessage") = 0
                            /\ Count(out, "sendInlineKeyboard") = 1
                            /\ \A i \in Calls(out, "sendInlineKeyboard") :
                                  /\ Cardinality(out[i].a[2]) = k
                                  /\ out[i].a[2] =
                                        {<<Tok("send_cover_", name), Tok("confirm_delete_", name)>> :
                                            name \in names}]_vars

C23_Witness ==
    \E h \in Slots :
        /\ task[h].st = "done"
        /\ IsCommand(task[h], "/covers")
        /\ Cardinality(ObjectKeys(Covers(task[h].userId))) = 2
        /\ \E i \in Calls(task[h].out, "sendInlineKeyboard") :
              Cardinality(task[h].out[i].a[2]) = 2

\* the handler's update is a press of the button with the keyword kw
IsPress(t, kw) == IsCallback(t.update) /\ t.update.callback_query.data.kw = kw

(***************************************************************************)
(* C24: no step of a /stats, extract_metadata or extract_media handler     *)
(* changes the Cover Record, the counters, the registry or the flow state  *)
(* of any user; a /stats handler that ends normally has reported the two   *)
(* counters of the user's record, or 0 and 0 when the user has no record,  *)
(* and the user then still has none.                                       *)
(***************************************************************************)
C24_ReadOnlyOperations ==
    [][\A h \in Slots :
          LET t == task[h]
              u == t.userId
              out == task'[h].out
          IN  (t.st = "run" /\ (IsCommand(t, "/stats") \/ IsPress(t, "extract_metadata")
                                  \/ IsPress(t, "extract_media"))) =>
                /\ UNCHANGED <<COVERS_KV, STATS_KV, USER_STORE, userState>>
                /\ (IsCommand(t, "/stats") /\ task'[h].st = "done") =>
                      /\ Count(out, "sendMessage") = 1
                      /\ \A i \in Calls(out, "sendMessage") :
                            out[i].a[1] =
                               IF u \in DOMAIN STATS_KV
                               THEN <<"Your Stats", STATS_KV[u].videos_processed,
                                      STATS_KV[u].covers_changed>>
                               ELSE <<"Your Stats", 0, 0>>
                      /\ u \notin DOMAIN STATS_KV => u \notin DOMAIN STATS_KV']_vars

\* /stats of a user without a record
C24_Witness ==
    \E h \in Slots :
        /\ task[h].st = "done"
        /\ IsCommand(task[h], "/stats")
        /\ task[h].userId \notin DOMAIN STATS_KV
        /\ \E i \in Calls(task[h].out, "sendMessage") :
              task[h].out[i].a[1] = <<"Your Stats", 0, 0>>

\* the longest sequence of calls of one handler: paste_image when the primary
\* host fails (edit, getFile, fetch of the file, primary host, edit, fallback
\* host, edit, acknowledgement)
MaxCalls == 8

(***************************************************************************)
(* C25: a handler never has made more than MaxCalls calls, and, if every   *)
(* awaited call returns or fails, a handler that has started ends,         *)
(* normally or by a failure.                                               *)
(***************************************************************************)
C25_HandlersTerminate ==
    /\ [](\A h \in Slots : Len(task[h].out) <= MaxCalls)
    /\ \A h \in Slots : (task[h].st = "run") ~> Ended(task[h])

C25_Witness ==
    \E h \in Slots :
        /\ task[h].st = "done"
        /\ task[h].br = "paste_image"
        /\ Len(task[h].out) = MaxCalls

\* the handlers that took a photo of user u for a completion and have sent
\* the video
Completions(u) ==
    {h \in Slots : task[h].br = "awaiting_new_cover" /\ task[h].userId = u /\ SentVideo(task[h])}

(***************************************************************************)
(* C26: with handlers running concurrently, the photo completions of a     *)
(* user that have sent the video are no more than the set_cover callbacks  *)
(* of that user that set the flow state: one set_cover, at most one video. *)
(***************************************************************************)
C26_CompletedAtMostOnce ==
    \A u \in Users : Cardinality(Completions(u)) <= hist.setCovers[u]

\* what the stores and the flow state hold for user v
RecordsOf(covers, stats, users, state, v) ==
    <<v \in DOMAIN covers, KvGetOr(covers, v, EmptyObject),
      v \in DOMAIN stats, KvGetOr(stats, v, ZeroStats),
      v \in DOMAIN users,
      v \in DOMAIN state, KvGetOr(state, v, NoEntry)>>

RecordsChange(v) ==
    RecordsOf(COVERS_KV', STATS_KV', USER_STORE', userState', v)
        # RecordsOf(COVERS_KV, STATS_KV, USER_STORE, userState, v)

(***************************************************************************)
(* C27: with the handlers of two users running concurrently, a step that   *)
(* changes the Cover Record, the counters, the registry entry or the       *)
(* flow-state entry of a user is the arrival of an update sent by that     *)
(* user or a step of the handler of one: no step of the handler of an      *)
(* event sent by U touches what is kept for another user V.                *)
(***************************************************************************)
C27_PerUserIsolation ==
    [][\A v \in Users :
          RecordsChange(v) =>
              \E h \in Slots :
                  /\ task'[h] # task[h]
                  /\ task'[h].userId = v
                  /\ IF IsCallback(task'[h].update)
                     THEN task'[h].update.callback_query.from = v
                     ELSE task'[h].update.message.from = v
                  /\ \A g \in Slots \ {h} : task'[g] = task[g]]_vars

\* u1 has a counter and nothing else, u2 a cover and a pending interaction
C27_Witness ==
    /\ nUpdates = 3
    /\ Quiescent
    /\ Stats("u1").videos_processed = 1
    /\ "a" \in ObjectKeys(Covers("u2"))
    /\ "u1" \notin DOMAIN COVERS_KV
    /\ "u2" \notin DOMAIN STATS_KV
    /\ Awaiting(userState, "u2", "awaiting_new_cover")
    /\ ~MapHas(userState, "u1")

\* the entry of user u, or NoEntry
EntryOf(state, u) == KvGetOr(state, u, NoEntry)

\* the four events that change the flow state, told from the update and from
\* the tag the user had when it arrived
SetsNewCover(t) ==
    /\ IsPress(t, "set_cover")
    /\ t.update.callback_query.message.reply_to_message.video # NoVideo

SetsCoverName(t) ==
    /\ IsPress(t, "save_with_name")
    /\ t.update.callback_query.message.reply_to_message.photo # <<>>

ClearsNewCover(t) == IsPhotoMessage(t.update) /\ t.pending = "awaiting_new_cover"

ClearsCoverName(t) ==
    IsMessage(t.update) /\ t.update.message.text # "" /\ t.pending = "awaiting_cover_name"

(***************************************************************************)
(* C28: a step changes the flow-state entry of a user only as a step of    *)
(* the handler of one of four events of that user: set_cover (on a message *)
(* replying to a video) sets the entry that awaits a new cover,            *)
(* save_with_name (on a message replying to a photo) sets the entry that   *)
(* awaits a name, a photo that arrived while a new cover was awaited and a *)
(* text that arrived while a name was awaited remove the entry; and each   *)
(* of the four, when its handler ends normally, has made its change.  The  *)
(* handler of any other event leaves the entry as it is.                   *)
(***************************************************************************)
C28_FlowStateChanges ==
    [][\A u \in Users :
          /\ EntryOf(userState', u) # EntryOf(userState, u) =>
                \E h \in Slots :
                    LET t == task'[h]
                        message == t.update.callback_query.message
                    IN  /\ task'[h] # task[h]
                        /\ t.userId = u
                        /\ \/ /\ SetsNewCover(t)
                              /\ EntryOf(userState', u) =
                                    [action |-> "awaiting_new_cover",
                                     file_id |-> message.reply_to_message.video.file_id,
                                     original_caption |-> message.reply_to_message.caption,
                                     message_id |-> message.message_id]
                           \/ /\ SetsCoverName(t)
                              /\ EntryOf(userState', u) =
                                    [action |-> "awaiting_cover_name",
                                     file_id |-> LargestPhoto(message.reply_to_message.photo),
                                     original_caption |-> "",
                                     message_id |-> message.message_id]
                           \/ /\ ClearsNewCover(t) \/ ClearsCoverName(t)
                              /\ ~MapHas(userState', u)
          /\ \A h \in Slots :
                LET t == task'[h] IN
                (task[h].st = "run" /\ t.st = "done" /\ t.userId = u) =>
                    /\ SetsNewCover(t) => Awaiting(userState', u, "awaiting_new_cover")
                    /\ SetsCoverName(t) => Awaiting(userState', u, "awaiting_cover_name")
                    /\ (ClearsNewCover(t) \/ ClearsCoverName(t)) => ~MapHas(userState', u)]_vars

\* an entry that awaits a name is still there after a photo of the user was
\* handled
C28_Witness ==
    \E h \in Slots :
        /\ task[h].st = "done"
        /\ IsPhotoMessage(task[h].update)
        /\ task[h].pending = "awaiting_cover_name"
        /\ Count(task[h].out, "sendInlineKeyboard") = 1
        /\ Awaiting(userState, task[h].userId, "awaiting_cover_name")

\* what the callback that set the flow state made it hold
HeldBy(callback_query) ==
    LET message == callback_query.message IN
    IF callback_query.data.kw = "set_cover"
    THEN [action |-> "awaiting_new_cover",
          file_id |-> message.reply_to_message.video.file_id,
          original_caption |-> message.reply_to_message.caption,
          message_id |-> message.message_id]
    ELSE [action |-> "awaiting_cover_name",
          file_id |-> LargestPhoto(message.reply_to_message.photo),
          original_caption |-> "",
          message_id |-> message.message_id]

Answered == (http' # http \/ nUpdates' # nUpdates) /\ Bindings \subseteq http'.env

NotDispatched == UNCHANGED <<task, nUpdates, COVERS_KV, STATS_KV, USER_STORE, userState>>

(***************************************************************************)
(* C30, as stated: with every binding present, a request to /webhook       *)
(* dispatches one update and calls neither setWebhook nor deleteWebhook;   *)
(* a request to /delete calls deleteWebhook once and dispatches nothing; a *)
(* request to any other path calls setWebhook once, with the /webhook URL  *)
(* of the host of the request, and dispatches nothing.                     *)
(***************************************************************************)
C30_RoutedByPath ==
    [][Answered =>
          /\ http'.path = "/webhook" =>
                (nUpdates' = nUpdates + 1 /\ http'.calls = <<>>)
          /\ http'.path = "/delete" =>
                (http'.calls = <<Call("deleteWebhook", <<>>)>> /\ NotDispatched)
          /\ http'.path \notin {"/webhook", "/delete"} =>
                /\ http'.calls =
                      <<Call("setWebhook", <<<<"https://", http'.host, "/webhook">>>>)>>
                /\ NotDispatched]_vars

(***************************************************************************)
(* C30, amended: the same, except that a request to /webhook whose body    *)
(* does not decode dispatches nothing: it is answered with 500, and calls  *)
(* neither setWebhook nor deleteWebhook.                                   *)
(***************************************************************************)
C30_RoutedByPathAndBody ==
    [][Answered =>
          /\ (http'.path = "/webhook" /\ http'.decodable) =>
                (nUpdates' = nUpdates + 1 /\ http'.calls = <<>> /\ http'.status = 200)
          /\ (http'.path = "/webhook" /\ ~http'.decodable) =>
                (http'.calls = <<>> /\ http'.status = 500 /\ NotDispatched)
          /\ http'.path = "/delete" =>
                (http'.calls = <<Call("deleteWebhook", <<>>)>> /\ NotDispatched)
          /\ http'.path \notin {"/webhook", "/delete"} =>
                /\ http'.calls =
                      <<Call("setWebhook", <<<<"https://", http'.host, "/webhook">>>>)>>
                /\ NotDispatched]_vars

\* a request to /webhook/ on the other host, after an update was dispatched
C30_Witness ==
    /\ http.path = "/webhook/"
    /\ http.host = "alias.example"
    /\ Bindings \subseteq http.env
    /\ http.calls = <<Call("setWebhook", <<<<"https://", "alias.example", "/webhook">>>>)>>
    /\ nUpdates = 1

=============================================================================
